---- MODULE Spec2Model ----
(***************************************************************************)
(* State-machine model of the CryptoCoin ledger core: the proof-of-work    *)
(* chain (Blockchain / TransactionBlock / Block / Transaction /            *)
(* CryptoUtils) and the proof-of-stake chain (ProofOfStakeBlockchain /     *)
(* PosBlock), of the NoobCoin currency built on its own chain and wallets, *)
(* and of the simulated peer-to-peer network of NetworkNode objects.       *)
(*                                                                         *)
(* Strings that take part in hashing (hashes, ids, merkle roots) are       *)
(* sequences of natural-number characters; `+` on strings is \o.  SHA-256  *)
(* is replaced by a deterministic mixing function onto DigestLen           *)
(* characters over an alphabet of DigestBase symbols, so distinct inputs   *)
(* may collide far more often than with the real digest.  Addresses are    *)
(* TLA+ strings; JavaScript null is the value Null.  Amounts are integers. *)
(* generateId() is modelled by a counter: every id is fresh.               *)
(***************************************************************************)
EXTENDS Integers, Sequences, FiniteSets, TLC

\* ---------------------------------------------------------------- bounds
MaxBlocks == 3      \* the chain is not grown beyond this many blocks
MaxTx == 2          \* transactions accepted by createTransaction
MaxStakeOps == 2    \* successful stakeTokens / unstakeTokens calls explored
MaxIds == 4         \* ids handed to calculateMerkleRoot on its own
MaxWrites == 1      \* direct writes to fields of sealed blocks explored
DigestBase == 2     \* symbols per digest character (the real digest has 16)
MaxCoinBlocks == 3  \* the coin's blockchain is not grown beyond this many blocks
MaxCoinTx == 1      \* transactions waiting in the coin's pool
MaxWallets == 4     \* wallets after which createWallet is no longer called
MaxNetBlocks == 2   \* a node's chain is not grown beyond this many blocks
MaxNetTx == 2       \* ids handed out in the network before the last new transaction
MaxInFlight == 2    \* messages under way above which no node is called

\* ------------------------------------------------------ program constants
Difficulty == 3
MiningReward == 10
MinimumStake == 32
BlockReward == 5
NoobDifficulty == 4

\* characters in a digest (the real digest has 64): one more than the target
DigestLen == Difficulty + 1

\* ----------------------------------------------------------------- inputs
Null == "<null>"
Addresses == {"alice", "bob"}
FromInputs == {Null, ""} \cup Addresses
ToInputs == Addresses
AmountInputs == {-50, 10, 50}
StakeInputs == {10, 40, 50}
UnstakeInputs == {10, 50}
Times == {1, 2}
SeedBalances == [a \in Addresses |-> IF a = "alice" THEN 50 ELSE 40]

VARIABLES kind, chain, pendingTransactions, balances, validators, nextId,
          stakeOps, writes, ret,
          noobCoin,        \* the NoobCoin object
          nodes,           \* the NetworkNode objects, by nodeId
          messageQueues,   \* NetworkSimulator.messageQueues
          timers           \* callbacks of setTimeout that have not run yet

\* the coin and the network, which the ledger core never touches
coinAndNetwork == <<noobCoin, nodes, messageQueues, timers>>

vars == <<kind, chain, pendingTransactions, balances, validators, nextId,
          stakeOps, writes, ret, noobCoin, nodes, messageQueues, timers>>

\* ------------------------------------------------------------ CryptoUtils
RECURSIVE Pow(_, _)
Pow(b, e) == IF e = 0 THEN 1 ELSE b * Pow(b, e - 1)

HashSpace == Pow(DigestBase, DigestLen)

\* rendering of a non-negative number inside a string concatenation
NumStr(n) == <<n>>

\* rendering of an address inside a string concatenation
AddrStr(a) ==
    CASE a = "" -> <<>>
      [] a = "alice" -> <<21>>
      [] a = "bob" -> <<22>>
      [] a = "genesis" -> <<23>>
      [] OTHER -> <<24>>

HexDigest(v) ==
    [i \in 1..DigestLen |-> (v \div Pow(DigestBase, DigestLen - i)) % DigestBase]

RECURSIVE Mix(_, _)
Mix(s, h) ==
    IF s = <<>> THEN h
    ELSE Mix(Tail(s), (h * 7 + Head(s) + 1) % HashSpace)

CalculateHash(input) == HexDigest(Mix(input, 0))

GetDifficultyTarget(difficulty) == [i \in 1..difficulty |-> 0]

GenerateId(n) == <<30 + n>>

\* s.substring(0, n)
Substring0(s, n) == SubSeq(s, 1, IF n < Len(s) THEN n ELSE Len(s))

\* mutant of NextLevel: an element without a right neighbour moves up as it is
RECURSIVE NextLevelPromoteOdd(_)
NextLevelPromoteOdd(level) ==
    IF level = <<>> THEN <<>>
    ELSE IF Len(level) = 1 THEN level
    ELSE <<CalculateHash(level[1] \o level[2])>>
         \o NextLevelPromoteOdd(SubSeq(level, 3, Len(level)))

RECURSIVE NextLevel(_)
NextLevel(level) ==
    IF level = <<>> THEN <<>>
    ELSE LET left == level[1]
             right == IF Len(level) >= 2 /\ level[2] # <<>> THEN level[2] ELSE left
             rest == IF Len(level) >= 2 THEN SubSeq(level, 3, Len(level)) ELSE <<>>
         IN <<CalculateHash(left \o right)>> \o NextLevel(rest)

RECURSIVE Reduce(_)
Reduce(level) == IF Len(level) > 1 THEN Reduce(NextLevel(level)) ELSE level[1]

CalculateMerkleRoot(transactionIds) ==
    IF Len(transactionIds) = 0 THEN CalculateHash(<<>>)
    ELSE IF Len(transactionIds) = 1 THEN transactionIds[1]
    ELSE Reduce(transactionIds)

\* ------------------------------------------------------------ Transaction
Transaction(n, fromAddress, toAddress, amount) ==
    [id |-> GenerateId(n), fromAddress |-> fromAddress,
     toAddress |-> toAddress, amount |-> amount]

\* mutant of IsValid: the amount is checked before the coinbase shortcut
IsValidAmountFirst(tx) ==
    IF tx.amount <= 0 THEN FALSE
    ELSE IF tx.fromAddress = Null THEN TRUE
    ELSE IF tx.fromAddress = "" \/ tx.toAddress = "" THEN FALSE
    ELSE IF tx.fromAddress = tx.toAddress THEN FALSE
    ELSE TRUE

IsValid(tx) ==
    IF tx.fromAddress = Null THEN TRUE
    ELSE IF tx.amount <= 0 THEN FALSE
    ELSE IF tx.fromAddress = "" \/ tx.toAddress = "" THEN FALSE
    ELSE IF tx.fromAddress = tx.toAddress THEN FALSE
    ELSE TRUE

\* ----------------------------------------------------------------- blocks
TxIds(transactions) == [i \in 1..Len(transactions) |-> transactions[i].id]

BlockMerkleRoot(b) == CalculateMerkleRoot(TxIds(b.transactions))

\* TransactionBlock.calculateHash
PowCalculateHash(b) ==
    CalculateHash(NumStr(b.index) \o b.previousHash \o NumStr(b.timestamp)
                  \o b.merkleRoot \o NumStr(b.nonce))

\* PosBlock.calculateHash
PosCalculateHash(b) ==
    CalculateHash(NumStr(b.index) \o b.previousHash \o NumStr(b.timestamp)
                  \o b.merkleRoot \o AddrStr(b.validator)
                  \o NumStr(b.validatorBalance))

BlockCalculateHash(b) ==
    IF kind = "pow" THEN PowCalculateHash(b) ELSE PosCalculateHash(b)

\* new TransactionBlock(index, transactions, previousHash), built at time ts
TransactionBlock(index, transactions, previousHash, ts) ==
    LET b0 == [index |-> index, timestamp |-> ts, transactions |-> transactions,
               previousHash |-> previousHash, nonce |-> 0,
               merkleRoot |-> CalculateMerkleRoot(TxIds(transactions)),
               hash |-> <<>>]
    IN [b0 EXCEPT !.hash = PowCalculateHash(b0)]

\* mutant of PosBlock: the hash is taken before the merkle root is set
PosBlockStaleHash(index, transactions, previousHash, validator, validatorBalance, ts) ==
    LET b0 == [index |-> index, timestamp |-> ts, transactions |-> transactions,
               previousHash |-> previousHash, validator |-> validator,
               validatorBalance |-> validatorBalance,
               merkleRoot |-> <<>>,
               hash |-> <<>>]
    IN [b0 EXCEPT !.hash = PosCalculateHash(b0),
                  !.merkleRoot = CalculateMerkleRoot(TxIds(transactions))]

\* new PosBlock(index, transactions, previousHash, validator, validatorBalance)
PosBlock(index, transactions, previousHash, validator, validatorBalance, ts) ==
    LET b0 == [index |-> index, timestamp |-> ts, transactions |-> transactions,
               previousHash |-> previousHash, validator |-> validator,
               validatorBalance |-> validatorBalance,
               merkleRoot |-> CalculateMerkleRoot(TxIds(transactions)),
               hash |-> <<>>]
    IN [b0 EXCEPT !.hash = PosCalculateHash(b0)]

\* mutant of MineFrom: the hash is computed before the nonce is incremented
RECURSIVE MineFromHashThenIncrement(_, _, _)
MineFromHashThenIncrement(b, nonce, difficulty) ==
    LET hash == PowCalculateHash([b EXCEPT !.nonce = nonce])
    IN IF Substring0(hash, difficulty) # GetDifficultyTarget(difficulty)
       THEN MineFromHashThenIncrement(b, nonce + 1, difficulty)
       ELSE [b EXCEPT !.nonce = nonce + 1, !.hash = hash]

\* the body of mineBlock's loop from the given nonce on: nonce++, hash =
\* calculateHash(), until the hash starts with the target
RECURSIVE MineFrom(_, _, _)
MineFrom(b, nonce, difficulty) ==
    LET hash == PowCalculateHash([b EXCEPT !.nonce = nonce])
    IN IF Substring0(hash, difficulty) # GetDifficultyTarget(difficulty)
       THEN MineFrom(b, nonce + 1, difficulty)
       ELSE [b EXCEPT !.nonce = nonce, !.hash = hash]

\* mutant of MineBlock: the search loop never runs
MineBlockNoSearch(b, difficulty) == b

\* Block.mineBlock: the nonce search
MineBlock(b, difficulty) ==
    IF Substring0(b.hash, difficulty) # GetDifficultyTarget(difficulty)
    THEN MineFrom(b, b.nonce + 1, difficulty)
    ELSE b

HasValidTransactions(b) ==
    \A i \in 1..Len(b.transactions) : IsValid(b.transactions[i])

\* ----------------------------------------------------------------- ledger
GetBalanceIn(bal, address) ==
    IF address \in DOMAIN bal /\ bal[address] # 0 THEN bal[address] ELSE 0

GetBalance(address) == GetBalanceIn(balances, address)

\* balances.set(address, value)
MapSet(bal, address, value) ==
    [a \in DOMAIN bal \cup {address} |-> IF a = address THEN value ELSE bal[a]]

\* mutant of UpdateBalances: the sender is never debited
RECURSIVE UpdateBalancesNoDebit(_, _)
UpdateBalancesNoDebit(bal, transactions) ==
    IF transactions = <<>> THEN bal
    ELSE LET tx == Head(transactions)
             b2 == MapSet(bal, tx.toAddress, GetBalanceIn(bal, tx.toAddress) + tx.amount)
         IN UpdateBalancesNoDebit(b2, Tail(transactions))

\* mutant of UpdateBalances: the credit overwrites the receiver's balance
RECURSIVE UpdateBalancesOverwrite(_, _)
UpdateBalancesOverwrite(bal, transactions) ==
    IF transactions = <<>> THEN bal
    ELSE LET tx == Head(transactions)
             b1 == IF tx.fromAddress # Null /\ tx.fromAddress # ""
                   THEN MapSet(bal, tx.fromAddress,
                               GetBalanceIn(bal, tx.fromAddress) - tx.amount)
                   ELSE bal
             b2 == MapSet(b1, tx.toAddress, tx.amount)
         IN UpdateBalancesOverwrite(b2, Tail(transactions))

RECURSIVE UpdateBalances(_, _)
UpdateBalances(bal, transactions) ==
    IF transactions = <<>> THEN bal
    ELSE LET tx == Head(transactions)
             b1 == IF tx.fromAddress # Null /\ tx.fromAddress # ""
                   THEN MapSet(bal, tx.fromAddress,
                               GetBalanceIn(bal, tx.fromAddress) - tx.amount)
                   ELSE bal
             b2 == MapSet(b1, tx.toAddress, GetBalanceIn(b1, tx.toAddress) + tx.amount)
         IN UpdateBalances(b2, Tail(transactions))

\* mutant of GetLatestBlock: the first block instead of the last
GetLatestBlockFirst == chain[1]

GetLatestBlock == chain[Len(chain)]

\* ------------------------------------------------------------ validation
\* mutant of PowValidFrom: the difficulty-target check is missing
RECURSIVE PowValidFromNoTarget(_)
PowValidFromNoTarget(i) ==
    IF i > Len(chain) THEN TRUE
    ELSE LET currentBlock == chain[i]
             previousBlock == chain[i - 1]
         IN IF ~HasValidTransactions(currentBlock) THEN FALSE
            ELSE IF currentBlock.hash # PowCalculateHash(currentBlock) THEN FALSE
            ELSE IF currentBlock.previousHash # previousBlock.hash THEN FALSE
            ELSE PowValidFromNoTarget(i + 1)

RECURSIVE PowValidFrom(_)
PowValidFrom(i) ==
    IF i > Len(chain) THEN TRUE
    ELSE LET currentBlock == chain[i]
             previousBlock == chain[i - 1]
         IN IF ~HasValidTransactions(currentBlock) THEN FALSE
            ELSE IF currentBlock.hash # PowCalculateHash(currentBlock) THEN FALSE
            ELSE IF currentBlock.previousHash # previousBlock.hash THEN FALSE
            ELSE IF Substring0(currentBlock.hash, Difficulty)
                      # GetDifficultyTarget(Difficulty) THEN FALSE
            ELSE PowValidFrom(i + 1)

\* mutant of PosValidFrom: the proof-of-work target check is made as well
RECURSIVE PosValidFromWithTarget(_)
PosValidFromWithTarget(i) ==
    IF i > Len(chain) THEN TRUE
    ELSE LET currentBlock == chain[i]
             previousBlock == chain[i - 1]
         IN IF ~HasValidTransactions(currentBlock) THEN FALSE
            ELSE IF currentBlock.hash # PosCalculateHash(currentBlock) THEN FALSE
            ELSE IF currentBlock.previousHash # previousBlock.hash THEN FALSE
            ELSE IF Substring0(currentBlock.hash, Difficulty)
                    # GetDifficultyTarget(Difficulty) THEN FALSE
            ELSE PosValidFromWithTarget(i + 1)

RECURSIVE PosValidFrom(_)
PosValidFrom(i) ==
    IF i > Len(chain) THEN TRUE
    ELSE LET currentBlock == chain[i]
             previousBlock == chain[i - 1]
         IN IF ~HasValidTransactions(currentBlock) THEN FALSE
            ELSE IF currentBlock.hash # PosCalculateHash(currentBlock) THEN FALSE
            ELSE IF currentBlock.previousHash # previousBlock.hash THEN FALSE
            ELSE PosValidFrom(i + 1)

\* isChainValid() of the instantiated chain; the loop starts at the second block
IsChainValid == IF kind = "pow" THEN PowValidFrom(2) ELSE PosValidFrom(2)

\* ---------------------------------------------------------- construction
Returned(op, result) == [op |-> op, result |-> result]

\* createGenesisBlock
PowGenesis(ts) == TransactionBlock(0, <<Transaction(0, Null, "genesis", 0)>>, <<0>>, ts)

PosGenesis(ts) ==
    PosBlock(0, <<Transaction(0, Null, "genesis", 0)>>, <<0>>, "genesis", 0, ts)

\* no NoobCoin and no NetworkNode has been constructed
NoCoinNoNetwork ==
    /\ noobCoin = Null
    /\ nodes = Null
    /\ messageQueues = Null
    /\ timers = Null

\* new Blockchain()
InitPow ==
    /\ kind = "pow"
    /\ \E ts \in Times : chain = <<PowGenesis(ts)>>
    /\ pendingTransactions = <<>>
    /\ balances = <<>>
    /\ validators = <<>>
    /\ nextId = 1
    /\ stakeOps = 0
    /\ writes = 0
    /\ NoCoinNoNetwork
    /\ ret = Returned("new", "ok")

\* new ProofOfStakeBlockchain(), followed by the initial token distribution
InitPos ==
    /\ kind = "pos"
    /\ \E ts \in Times : chain = <<PosGenesis(ts)>>
    /\ pendingTransactions = <<>>
    /\ balances = SeedBalances
    /\ validators = <<>>
    /\ nextId = 1
    /\ stakeOps = 0
    /\ writes = 0
    /\ NoCoinNoNetwork
    /\ ret = Returned("new", "ok")

Init == InitPow \/ InitPos

\* ------------------------------------------------------------- operations
\* every sealing hands one id to its reward transaction, every accepted
\* createTransaction one to the submitted transaction
Accepted == nextId - Len(chain)

\* mutant of CreateTransaction: the sender's balance is not checked
CreateTransactionNoBalanceCheck(fromAddress, toAddress, amount) ==
    /\ Accepted < MaxTx
    /\ LET transaction == Transaction(nextId, fromAddress, toAddress, amount)
       IN IF ~IsValid(transaction)
          THEN /\ ret' = Returned("createTransaction",
                                  "Cannot add invalid transaction to chain")
               /\ UNCHANGED <<pendingTransactions, nextId>>
          ELSE /\ pendingTransactions' = Append(pendingTransactions, transaction)
               /\ nextId' = nextId + 1
               /\ ret' = Returned("createTransaction", "ok")
    /\ UNCHANGED <<coinAndNetwork, kind, chain, balances, validators, stakeOps, writes>>

\* mutant of CreateTransaction: an accepted transaction is applied to the
\* ledger at once
CreateTransactionReserving(fromAddress, toAddress, amount) ==
    /\ Accepted < MaxTx
    /\ LET transaction == Transaction(nextId, fromAddress, toAddress, amount)
       IN IF ~IsValid(transaction)
          THEN /\ ret' = Returned("createTransaction",
                                  "Cannot add invalid transaction to chain")
               /\ UNCHANGED <<pendingTransactions, nextId, balances>>
          ELSE IF transaction.fromAddress # Null
                  /\ GetBalance(transaction.fromAddress) < transaction.amount
          THEN /\ ret' = Returned("createTransaction", "Not enough balance")
               /\ UNCHANGED <<pendingTransactions, nextId, balances>>
          ELSE /\ pendingTransactions' = Append(pendingTransactions, transaction)
               /\ balances' = UpdateBalances(balances, <<transaction>>)
               /\ nextId' = nextId + 1
               /\ ret' = Returned("createTransaction", "ok")
    /\ UNCHANGED <<coinAndNetwork, kind, chain, validators, stakeOps, writes>>

\* Blockchain.createTransaction / ProofOfStakeBlockchain.createTransaction
CreateTransaction(fromAddress, toAddress, amount) ==
    /\ Accepted < MaxTx
    /\ LET transaction == Transaction(nextId, fromAddress, toAddress, amount)
       IN IF ~IsValid(transaction)
          THEN /\ ret' = Returned("createTransaction",
                                  "Cannot add invalid transaction to chain")
               /\ UNCHANGED <<pendingTransactions, nextId>>
          ELSE IF transaction.fromAddress # Null
                  /\ GetBalance(transaction.fromAddress) < transaction.amount
          THEN /\ ret' = Returned("createTransaction", "Not enough balance")
               /\ UNCHANGED <<pendingTransactions, nextId>>
          ELSE /\ pendingTransactions' = Append(pendingTransactions, transaction)
               /\ nextId' = nextId + 1
               /\ ret' = Returned("createTransaction", "ok")
    /\ UNCHANGED <<coinAndNetwork, kind, chain, balances, validators, stakeOps, writes>>

\* mutant of MinePendingTransactions: the pool is not reset after sealing
MinePendingTransactionsKeepPool(miningRewardAddress) ==
    /\ kind = "pow"
    /\ Len(chain) < MaxBlocks
    /\ \E ts \in Times :
         LET rewardTransaction == Transaction(nextId, Null, miningRewardAddress, MiningReward)
             pool == Append(pendingTransactions, rewardTransaction)
             block == MineBlock(TransactionBlock(Len(chain), pool,
                                                 GetLatestBlock.hash, ts), Difficulty)
         IN /\ chain' = Append(chain, block)
            /\ balances' = UpdateBalances(balances, chain'[Len(chain')].transactions)
            /\ pendingTransactions' = pool
    /\ nextId' = nextId + 1
    /\ ret' = Returned("minePendingTransactions", "ok")
    /\ UNCHANGED <<coinAndNetwork, kind, validators, stakeOps, writes>>

\* mutant of MinePendingTransactions: the new block takes the place of the
\* latest one
MinePendingTransactionsOverwriteLatest(miningRewardAddress) ==
    /\ kind = "pow"
    /\ Len(chain) < MaxBlocks
    /\ \E ts \in Times :
         LET rewardTransaction == Transaction(nextId, Null, miningRewardAddress, MiningReward)
             pool == Append(pendingTransactions, rewardTransaction)
             block == MineBlock(TransactionBlock(Len(chain), pool,
                                                 GetLatestBlock.hash, ts), Difficulty)
         IN /\ chain' = Append(SubSeq(chain, 1, Len(chain) - 1), block)
            /\ balances' = UpdateBalances(balances, chain'[Len(chain')].transactions)
    /\ pendingTransactions' = <<>>
    /\ nextId' = nextId + 1
    /\ ret' = Returned("minePendingTransactions", "ok")
    /\ UNCHANGED <<coinAndNetwork, kind, validators, stakeOps, writes>>

\* mutant of MinePendingTransactions: the block is numbered after the latest
\* block instead of the chain length
MinePendingTransactionsIndexOfLatest(miningRewardAddress) ==
    /\ kind = "pow"
    /\ Len(chain) < MaxBlocks
    /\ \E ts \in Times :
         LET rewardTransaction == Transaction(nextId, Null, miningRewardAddress, MiningReward)
             pool == Append(pendingTransactions, rewardTransaction)
             block == MineBlock(TransactionBlock(GetLatestBlock.index, pool,
                                                 GetLatestBlock.hash, ts), Difficulty)
         IN /\ chain' = Append(chain, block)
            /\ balances' = UpdateBalances(balances, chain'[Len(chain')].transactions)
    /\ pendingTransactions' = <<>>
    /\ nextId' = nextId + 1
    /\ ret' = Returned("minePendingTransactions", "ok")
    /\ UNCHANGED <<coinAndNetwork, kind, validators, stakeOps, writes>>

\* mutant of MinePendingTransactions: a chain that fails validation accepts
\* no further block
MinePendingTransactionsOnValidChain(miningRewardAddress) ==
    /\ kind = "pow"
    /\ Len(chain) < MaxBlocks
    /\ IF ~IsChainValid
       THEN /\ ret' = Returned("minePendingTransactions", "Chain is invalid")
            /\ UNCHANGED <<chain, balances, pendingTransactions, nextId>>
       ELSE /\ \E ts \in Times :
                 LET rewardTransaction == Transaction(nextId, Null, miningRewardAddress,
                                                      MiningReward)
                     pool == Append(pendingTransactions, rewardTransaction)
                     block == MineBlock(TransactionBlock(Len(chain), pool,
                                                         GetLatestBlock.hash, ts), Difficulty)
                 IN /\ chain' = Append(chain, block)
                    /\ balances' = UpdateBalances(balances, chain'[Len(chain')].transactions)
            /\ pendingTransactions' = <<>>
            /\ nextId' = nextId + 1
            /\ ret' = Returned("minePendingTransactions", "ok")
    /\ UNCHANGED <<coinAndNetwork, kind, validators, stakeOps, writes>>

\* Blockchain.minePendingTransactions
MinePendingTransactions(miningRewardAddress) ==
    /\ kind = "pow"
    /\ Len(chain) < MaxBlocks
    /\ \E ts \in Times :
         LET rewardTransaction == Transaction(nextId, Null, miningRewardAddress, MiningReward)
             pool == Append(pendingTransactions, rewardTransaction)
             block == MineBlock(TransactionBlock(Len(chain), pool,
                                                 GetLatestBlock.hash, ts), Difficulty)
         IN /\ chain' = Append(chain, block)
            /\ balances' = UpdateBalances(balances, chain'[Len(chain')].transactions)
    /\ pendingTransactions' = <<>>
    /\ nextId' = nextId + 1
    /\ ret' = Returned("minePendingTransactions", "ok")
    /\ UNCHANGED <<coinAndNetwork, kind, validators, stakeOps, writes>>

\* ------------------------------------------------------------- validators
\* validators.get(address): position in the registry, 0 when absent
ValidatorIndex(address) ==
    IF \E i \in 1..Len(validators) : validators[i].address = address
    THEN CHOOSE i \in 1..Len(validators) : validators[i].address = address
    ELSE 0

\* validators.delete(address)
RemoveAt(seq, i) == SubSeq(seq, 1, i - 1) \o SubSeq(seq, i + 1, Len(seq))

RECURSIVE SumStake(_)
SumStake(vs) == IF vs = <<>> THEN 0 ELSE Head(vs).stake + SumStake(Tail(vs))

\* mutant of ActiveValidators: the filter keeps the inactive validators
ActiveValidatorsInverted == SelectSeq(validators, LAMBDA v : ~v.isActive)

ActiveValidators == SelectSeq(validators, LAMBDA v : v.isActive)

GetTotalStake == SumStake(validators)

\* mutant of Walk: a draw equal to the cumulative stake passes the validator by
RECURSIVE WalkStrict(_, _, _)
WalkStrict(vs, currentSum, randomTarget) ==
    IF vs = <<>> THEN Null
    ELSE IF randomTarget < currentSum + Head(vs).stake THEN Head(vs).address
    ELSE WalkStrict(Tail(vs), currentSum + Head(vs).stake, randomTarget)

RECURSIVE Walk(_, _, _)
Walk(vs, currentSum, randomTarget) ==
    IF vs = <<>> THEN Null
    ELSE IF randomTarget <= currentSum + Head(vs).stake THEN Head(vs).address
    ELSE Walk(Tail(vs), currentSum + Head(vs).stake, randomTarget)

\* selectValidator() when Math.random() * totalStake comes out as randomTarget
SelectValidator(randomTarget) ==
    LET activeValidators == ActiveValidators
    IN IF Len(activeValidators) = 0 THEN Null
       ELSE LET walked == Walk(activeValidators, 0, randomTarget)
            IN IF walked # Null THEN walked ELSE activeValidators[1].address

RECURSIVE CumulativeStakes(_, _)
CumulativeStakes(vs, currentSum) ==
    IF vs = <<>> THEN {}
    ELSE {currentSum + Head(vs).stake}
         \cup CumulativeStakes(Tail(vs), currentSum + Head(vs).stake)

\* Math.random() * totalStake lies in [0, totalStake); the walk only compares
\* it with the cumulative stakes, so one draw at and one just above each
\* cumulative stake stand for all of them
Draws ==
    LET totalStake == SumStake(ActiveValidators)
        marks == CumulativeStakes(ActiveValidators, 0)
    IN {0} \cup {r \in marks \cup {m + 1 : m \in marks} : r < totalStake}

\* mutant of StakeTokens: the minimum-stake check is missing
StakeTokensNoMinimum(address, amount) ==
    /\ kind = "pos"
    /\ stakeOps < MaxStakeOps
    /\ LET balance == GetBalance(address)
       IN IF balance < amount
          THEN /\ ret' = Returned("stakeTokens", "false")
               /\ UNCHANGED <<balances, validators, stakeOps>>
          ELSE /\ balances' = MapSet(balances, address, balance - amount)
               /\ LET i == ValidatorIndex(address)
                  IN IF i # 0
                     THEN validators' = [validators EXCEPT ![i].stake = @ + amount]
                     ELSE validators' = Append(validators,
                              [address |-> address, stake |-> amount,
                               isActive |-> TRUE])
               /\ stakeOps' = stakeOps + 1
               /\ ret' = Returned("stakeTokens", "true")
    /\ UNCHANGED <<coinAndNetwork, kind, chain, pendingTransactions, nextId, writes>>

\* mutant of StakeTokens: a top-up replaces the recorded stake
StakeTokensOverwriteStake(address, amount) ==
    /\ kind = "pos"
    /\ stakeOps < MaxStakeOps
    /\ LET balance == GetBalance(address)
       IN IF balance < amount
          THEN /\ ret' = Returned("stakeTokens", "false")
               /\ UNCHANGED <<balances, validators, stakeOps>>
          ELSE IF amount < MinimumStake
          THEN /\ ret' = Returned("stakeTokens", "false")
               /\ UNCHANGED <<balances, validators, stakeOps>>
          ELSE /\ balances' = MapSet(balances, address, balance - amount)
               /\ LET i == ValidatorIndex(address)
                  IN IF i # 0
                     THEN validators' = [validators EXCEPT ![i].stake = amount]
                     ELSE validators' = Append(validators,
                              [address |-> address, stake |-> amount,
                               isActive |-> TRUE])
               /\ stakeOps' = stakeOps + 1
               /\ ret' = Returned("stakeTokens", "true")
    /\ UNCHANGED <<coinAndNetwork, kind, chain, pendingTransactions, nextId, writes>>

\* mutant of StakeTokens: the balance is debited before the minimum is checked
StakeTokensDebitFirst(address, amount) ==
    /\ kind = "pos"
    /\ stakeOps < MaxStakeOps
    /\ LET balance == GetBalance(address)
       IN IF balance < amount
          THEN /\ ret' = Returned("stakeTokens", "false")
               /\ UNCHANGED <<balances, validators, stakeOps>>
          ELSE IF amount < MinimumStake
          THEN /\ balances' = MapSet(balances, address, balance - amount)
               /\ ret' = Returned("stakeTokens", "false")
               /\ UNCHANGED <<validators, stakeOps>>
          ELSE /\ balances' = MapSet(balances, address, balance - amount)
               /\ LET i == ValidatorIndex(address)
                  IN IF i # 0
                     THEN validators' = [validators EXCEPT ![i].stake = @ + amount]
                     ELSE validators' = Append(validators,
                              [address |-> address, stake |-> amount,
                               isActive |-> TRUE])
               /\ stakeOps' = stakeOps + 1
               /\ ret' = Returned("stakeTokens", "true")
    /\ UNCHANGED <<coinAndNetwork, kind, chain, pendingTransactions, nextId, writes>>

\* ProofOfStakeBlockchain.stakeTokens
StakeTokens(address, amount) ==
    /\ kind = "pos"
    /\ stakeOps < MaxStakeOps
    /\ LET balance == GetBalance(address)
       IN IF balance < amount
          THEN /\ ret' = Returned("stakeTokens", "false")
               /\ UNCHANGED <<balances, validators, stakeOps>>
          ELSE IF amount < MinimumStake
          THEN /\ ret' = Returned("stakeTokens", "false")
               /\ UNCHANGED <<balances, validators, stakeOps>>
          ELSE /\ balances' = MapSet(balances, address, balance - amount)
               /\ LET i == ValidatorIndex(address)
                  IN IF i # 0
                     THEN validators' = [validators EXCEPT ![i].stake = @ + amount]
                     ELSE validators' = Append(validators,
                              [address |-> address, stake |-> amount,
                               isActive |-> TRUE])
               /\ stakeOps' = stakeOps + 1
               /\ ret' = Returned("stakeTokens", "true")
    /\ UNCHANGED <<coinAndNetwork, kind, chain, pendingTransactions, nextId, writes>>

\* mutant of UnstakeTokens: a validator that falls below the minimum stake
\* stays in the registry
UnstakeTokensKeepValidator(address, amount) ==
    /\ kind = "pos"
    /\ stakeOps < MaxStakeOps
    /\ LET i == ValidatorIndex(address)
       IN IF i = 0
          THEN /\ ret' = Returned("unstakeTokens", "false")
               /\ UNCHANGED <<balances, validators, stakeOps>>
          ELSE IF validators[i].stake < amount
          THEN /\ ret' = Returned("unstakeTokens", "false")
               /\ UNCHANGED <<balances, validators, stakeOps>>
          ELSE /\ validators' = [validators EXCEPT ![i].stake = @ - amount]
               /\ balances' = MapSet(balances, address, GetBalance(address) + amount)
               /\ stakeOps' = stakeOps + 1
               /\ ret' = Returned("unstakeTokens", "true")
    /\ UNCHANGED <<coinAndNetwork, kind, chain, pendingTransactions, nextId, writes>>

\* mutant of UnstakeTokens: the recorded stake is not compared with the amount
UnstakeTokensNoStakeCheck(address, amount) ==
    /\ kind = "pos"
    /\ stakeOps < MaxStakeOps
    /\ LET i == ValidatorIndex(address)
       IN IF i = 0
          THEN /\ ret' = Returned("unstakeTokens", "false")
               /\ UNCHANGED <<balances, validators, stakeOps>>
          ELSE /\ LET lowered == [validators EXCEPT ![i].stake = @ - amount]
                  IN validators' = IF lowered[i].stake < MinimumStake
                                   THEN RemoveAt(lowered, i)
                                   ELSE lowered
               /\ balances' = MapSet(balances, address, GetBalance(address) + amount)
               /\ stakeOps' = stakeOps + 1
               /\ ret' = Returned("unstakeTokens", "true")
    /\ UNCHANGED <<coinAndNetwork, kind, chain, pendingTransactions, nextId, writes>>

\* mutant of UnstakeTokens: a removed validator is paid its whole stake
UnstakeTokensRefundAll(address, amount) ==
    /\ kind = "pos"
    /\ stakeOps < MaxStakeOps
    /\ LET i == ValidatorIndex(address)
       IN IF i = 0
          THEN /\ ret' = Returned("unstakeTokens", "false")
               /\ UNCHANGED <<balances, validators, stakeOps>>
          ELSE IF validators[i].stake < amount
          THEN /\ ret' = Returned("unstakeTokens", "false")
               /\ UNCHANGED <<balances, validators, stakeOps>>
          ELSE /\ LET lowered == [validators EXCEPT ![i].stake = @ - amount]
                  IN /\ validators' = IF lowered[i].stake < MinimumStake
                                      THEN RemoveAt(lowered, i)
                                      ELSE lowered
                     /\ balances' = MapSet(balances, address,
                            GetBalance(address)
                            + (IF lowered[i].stake < MinimumStake
                               THEN validators[i].stake ELSE amount))
               /\ stakeOps' = stakeOps + 1
               /\ ret' = Returned("unstakeTokens", "true")
    /\ UNCHANGED <<coinAndNetwork, kind, chain, pendingTransactions, nextId, writes>>

\* ProofOfStakeBlockchain.unstakeTokens
UnstakeTokens(address, amount) ==
    /\ kind = "pos"
    /\ stakeOps < MaxStakeOps
    /\ LET i == ValidatorIndex(address)
       IN IF i = 0
          THEN /\ ret' = Returned("unstakeTokens", "false")
               /\ UNCHANGED <<balances, validators, stakeOps>>
          ELSE IF validators[i].stake < amount
          THEN /\ ret' = Returned("unstakeTokens", "false")
               /\ UNCHANGED <<balances, validators, stakeOps>>
          ELSE /\ LET lowered == [validators EXCEPT ![i].stake = @ - amount]
                  IN validators' = IF lowered[i].stake < MinimumStake
                                   THEN RemoveAt(lowered, i)
                                   ELSE lowered
               /\ balances' = MapSet(balances, address, GetBalance(address) + amount)
               /\ stakeOps' = stakeOps + 1
               /\ ret' = Returned("unstakeTokens", "true")
    /\ UNCHANGED <<coinAndNetwork, kind, chain, pendingTransactions, nextId, writes>>

\* ProofOfStakeBlockchain.selectValidator, called on its own
SelectValidatorCall ==
    /\ kind = "pos"
    /\ \E randomTarget \in Draws :
         ret' = Returned("selectValidator", SelectValidator(randomTarget))
    /\ UNCHANGED <<coinAndNetwork, kind, chain, pendingTransactions, balances,
                   validators, nextId,
                   stakeOps, writes>>

\* mutant of ForgeBlock: a failed call empties the pool
ForgeBlockFailureClearsPool ==
    /\ kind = "pos"
    /\ Len(chain) < MaxBlocks
    /\ \E randomTarget \in Draws :
         LET selectedValidator == SelectValidator(randomTarget)
         IN IF selectedValidator = Null
            THEN /\ ret' = Returned("forgeBlock", "false")
                 /\ pendingTransactions' = <<>>
                 /\ UNCHANGED <<chain, balances, nextId>>
            ELSE \E ts \in Times :
                   LET validator == validators[ValidatorIndex(selectedValidator)]
                       rewardTransaction ==
                           Transaction(nextId, Null, selectedValidator, BlockReward)
                       pool == Append(pendingTransactions, rewardTransaction)
                       block == PosBlock(Len(chain), pool, GetLatestBlock.hash,
                                         selectedValidator, validator.stake, ts)
                   IN /\ chain' = Append(chain, block)
                      /\ balances' = UpdateBalances(balances, chain'[Len(chain')].transactions)
                      /\ pendingTransactions' = <<>>
                      /\ nextId' = nextId + 1
                      /\ ret' = Returned("forgeBlock", "true")
    /\ UNCHANGED <<coinAndNetwork, kind, validators, stakeOps, writes>>

\* mutant of ForgeBlock: the block records the validator's ledger balance
\* instead of its stake
ForgeBlockRecordsBalance ==
    /\ kind = "pos"
    /\ Len(chain) < MaxBlocks
    /\ \E randomTarget \in Draws :
         LET selectedValidator == SelectValidator(randomTarget)
         IN IF selectedValidator = Null
            THEN /\ ret' = Returned("forgeBlock", "false")
                 /\ UNCHANGED <<chain, pendingTransactions, balances, nextId>>
            ELSE \E ts \in Times :
                   LET validator == validators[ValidatorIndex(selectedValidator)]
                       rewardTransaction ==
                           Transaction(nextId, Null, selectedValidator, BlockReward)
                       pool == Append(pendingTransactions, rewardTransaction)
                       block == PosBlock(Len(chain), pool, GetLatestBlock.hash,
                                         selectedValidator,
                                         GetBalance(selectedValidator), ts)
                   IN /\ chain' = Append(chain, block)
                      /\ balances' = UpdateBalances(balances, chain'[Len(chain')].transactions)
                      /\ pendingTransactions' = <<>>
                      /\ nextId' = nextId + 1
                      /\ ret' = Returned("forgeBlock", "true")
    /\ UNCHANGED <<coinAndNetwork, kind, validators, stakeOps, writes>>

\* mutant of ForgeBlock: the pool is not reset after sealing
ForgeBlockKeepPool ==
    /\ kind = "pos"
    /\ Len(chain) < MaxBlocks
    /\ \E randomTarget \in Draws :
         LET selectedValidator == SelectValidator(randomTarget)
         IN IF selectedValidator = Null
            THEN /\ ret' = Returned("forgeBlock", "false")
                 /\ UNCHANGED <<chain, pendingTransactions, balances, nextId>>
            ELSE \E ts \in Times :
                   LET validator == validators[ValidatorIndex(selectedValidator)]
                       rewardTransaction ==
                           Transaction(nextId, Null, selectedValidator, BlockReward)
                       pool == Append(pendingTransactions, rewardTransaction)
                       block == PosBlock(Len(chain), pool, GetLatestBlock.hash,
                                         selectedValidator, validator.stake, ts)
                   IN /\ chain' = Append(chain, block)
                      /\ balances' = UpdateBalances(balances, chain'[Len(chain')].transactions)
                      /\ pendingTransactions' = pool
                      /\ nextId' = nextId + 1
                      /\ ret' = Returned("forgeBlock", "true")
    /\ UNCHANGED <<coinAndNetwork, kind, validators, stakeOps, writes>>

\* mutant of ForgeBlock: the reward transaction is put in front of the pool
ForgeBlockRewardFirst ==
    /\ kind = "pos"
    /\ Len(chain) < MaxBlocks
    /\ \E randomTarget \in Draws :
         LET selectedValidator == SelectValidator(randomTarget)
         IN IF selectedValidator = Null
            THEN /\ ret' = Returned("forgeBlock", "false")
                 /\ UNCHANGED <<chain, pendingTransactions, balances, nextId>>
            ELSE \E ts \in Times :
                   LET validator == validators[ValidatorIndex(selectedValidator)]
                       rewardTransaction ==
                           Transaction(nextId, Null, selectedValidator, BlockReward)
                       pool == <<rewardTransaction>> \o pendingTransactions
                       block == PosBlock(Len(chain), pool, GetLatestBlock.hash,
                                         selectedValidator, validator.stake, ts)
                   IN /\ chain' = Append(chain, block)
                      /\ balances' = UpdateBalances(balances, chain'[Len(chain')].transactions)
                      /\ pendingTransactions' = <<>>
                      /\ nextId' = nextId + 1
                      /\ ret' = Returned("forgeBlock", "true")
    /\ UNCHANGED <<coinAndNetwork, kind, validators, stakeOps, writes>>

\* ProofOfStakeBlockchain.forgeBlock
ForgeBlock ==
    /\ kind = "pos"
    /\ Len(chain) < MaxBlocks
    /\ \E randomTarget \in Draws :
         LET selectedValidator == SelectValidator(randomTarget)
         IN IF selectedValidator = Null
            THEN /\ ret' = Returned("forgeBlock", "false")
                 /\ UNCHANGED <<chain, pendingTransactions, balances, nextId>>
            ELSE \E ts \in Times :
                   LET validator == validators[ValidatorIndex(selectedValidator)]
                       rewardTransaction ==
                           Transaction(nextId, Null, selectedValidator, BlockReward)
                       pool == Append(pendingTransactions, rewardTransaction)
                       block == PosBlock(Len(chain), pool, GetLatestBlock.hash,
                                         selectedValidator, validator.stake, ts)
                   IN /\ chain' = Append(chain, block)
                      /\ balances' = UpdateBalances(balances, chain'[Len(chain')].transactions)
                      /\ pendingTransactions' = <<>>
                      /\ nextId' = nextId + 1
                      /\ ret' = Returned("forgeBlock", "true")
    /\ UNCHANGED <<coinAndNetwork, kind, validators, stakeOps, writes>>

\* Blockchain.isChainValid / ProofOfStakeBlockchain.isChainValid
IsChainValidCall ==
    /\ ret' = Returned("isChainValid", IF IsChainValid THEN "true" ELSE "false")
    /\ UNCHANGED <<coinAndNetwork, kind, chain, pendingTransactions, balances,
                   validators, nextId,
                   stakeOps, writes>>

\* ------------------------------------------- writes through public fields
\* `chain` is a public field and blocks and transactions are plain objects:
\* a caller can overwrite any field of a sealed block, as the tampering test
\* of main() does with chain[1].transactions[0].amount = 1000
TamperAmounts == {0, 1000}

Written ==
    /\ writes' = writes + 1
    /\ ret' = Returned("write", "ok")
    /\ UNCHANGED <<coinAndNetwork, kind, pendingTransactions, balances, validators,
                   nextId, stakeOps>>

\* chain[i].transactions[j].amount = v  (positions are 1-based here)
TamperAmount(i, j, v) ==
    /\ writes < MaxWrites
    /\ i \in 2..Len(chain)
    /\ j \in 1..Len(chain[i].transactions)
    /\ v # chain[i].transactions[j].amount
    /\ chain' = [chain EXCEPT ![i].transactions[j].amount = v]
    /\ Written

\* chain[i].hash = h
TamperHash(i, h) ==
    /\ writes < MaxWrites
    /\ i \in 1..Len(chain)
    /\ h # chain[i].hash
    /\ chain' = [chain EXCEPT ![i].hash = h]
    /\ Written

\* chain[i].previousHash = h
TamperPreviousHash(i, h) ==
    /\ writes < MaxWrites
    /\ i \in 2..Len(chain)
    /\ h # chain[i].previousHash
    /\ chain' = [chain EXCEPT ![i].previousHash = h]
    /\ Written

\* chain[i].nonce++, followed when reseal is set by
\* chain[i].hash = chain[i].calculateHash()
TamperNonce(i, reseal) ==
    /\ writes < MaxWrites
    /\ kind = "pow"
    /\ i \in 2..Len(chain)
    /\ LET b1 == [chain[i] EXCEPT !.nonce = @ + 1]
       IN chain' = [chain EXCEPT ![i] =
                      IF reseal THEN [b1 EXCEPT !.hash = PowCalculateHash(b1)] ELSE b1]
    /\ Written

PowNext ==
    \/ \E f \in FromInputs, t \in ToInputs, a \in AmountInputs : CreateTransaction(f, t, a)
    \/ \E r \in Addresses : MinePendingTransactions(r)
    \/ IsChainValidCall

TamperNext ==
    \/ PowNext
    \/ \E i \in 1..MaxBlocks, j \in 1..(MaxTx + 1), v \in TamperAmounts : TamperAmount(i, j, v)
    \/ \E i \in 1..MaxBlocks : TamperHash(i, CalculateHash(<<>>))
    \/ \E i \in 1..MaxBlocks : TamperPreviousHash(i, <<0>>)
    \/ \E i \in 1..MaxBlocks, reseal \in BOOLEAN : TamperNonce(i, reseal)

\* ------------------------------------------------- Transaction on its own
\* arguments of new Transaction(fromAddress, toAddress, amount)
TxToInputs == {"", "genesis"} \cup Addresses
TxAmountInputs == {-50, 0, 10, 50}

\* a transaction object a caller has just constructed, next to a fresh chain
InitTransaction ==
    /\ kind \in {"pow", "pos"}
    /\ chain = <<IF kind = "pow" THEN PowGenesis(1) ELSE PosGenesis(1)>>
    /\ pendingTransactions = <<>>
    /\ balances = <<>>
    /\ validators = <<>>
    /\ nextId = 1
    /\ stakeOps = 0
    /\ writes = 0
    /\ NoCoinNoNetwork
    /\ \E f \in FromInputs, t \in TxToInputs, a \in TxAmountInputs :
          ret = Returned("new Transaction", Transaction(nextId, f, t, a))

\* transaction.isValid() on the object just constructed
IsValidCall ==
    /\ ret.op = "new Transaction"
    /\ ret' = Returned("isValid", [transaction |-> ret.result,
                                   valid |-> IsValid(ret.result)])
    /\ UNCHANGED <<coinAndNetwork, kind, chain, pendingTransactions, balances,
                   validators, nextId,
                   stakeOps, writes>>

TransactionSpec == InitTransaction /\ [][IsValidCall]_vars

\* ------------------------------------------ calculateMerkleRoot on its own
\* ids as generateId() hands them out, and the empty string
IdInputs == {<<>>} \cup {GenerateId(n) : n \in 1..3}

IdSequences == UNION {[1..n -> IdInputs] : n \in 0..MaxIds}

\* an array of ids a caller has just built, next to a fresh chain
InitMerkle ==
    /\ kind = "pow"
    /\ chain = <<PowGenesis(1)>>
    /\ pendingTransactions = <<>>
    /\ balances = <<>>
    /\ validators = <<>>
    /\ nextId = 1
    /\ stakeOps = 0
    /\ writes = 0
    /\ NoCoinNoNetwork
    /\ \E ids \in IdSequences : ret = Returned("ids", ids)

\* CryptoUtils.calculateMerkleRoot(ids) on the array just built
CalculateMerkleRootCall ==
    /\ ret.op = "ids"
    /\ ret' = Returned("calculateMerkleRoot",
                       [transactionIds |-> ret.result,
                        root |-> CalculateMerkleRoot(ret.result)])
    /\ UNCHANGED <<coinAndNetwork, kind, chain, pendingTransactions, balances,
                   validators, nextId,
                   stakeOps, writes>>

MerkleSpec == InitMerkle /\ [][CalculateMerkleRootCall]_vars

\* the proof-of-work chain alone
PowSpec == InitPow /\ [][PowNext]_vars

PosNext ==
    \/ \E f \in FromInputs, t \in ToInputs, a \in AmountInputs : CreateTransaction(f, t, a)
    \/ \E a \in Addresses, n \in StakeInputs : StakeTokens(a, n)
    \/ \E a \in Addresses, n \in UnstakeInputs : UnstakeTokens(a, n)
    \/ SelectValidatorCall
    \/ ForgeBlock
    \/ IsChainValidCall

\* the proof-of-stake chain alone
PosSpec == InitPos /\ [][PosNext]_vars

PosTamperNext ==
    \/ \E f \in Addresses, t \in ToInputs : CreateTransaction(f, t, 10)
    \/ \E a \in Addresses : StakeTokens(a, 40)
    \/ ForgeBlock
    \/ IsChainValidCall
    \/ \E i \in 1..MaxBlocks, j \in 1..(MaxTx + 1), v \in TamperAmounts : TamperAmount(i, j, v)
    \/ \E i \in 1..MaxBlocks : TamperHash(i, CalculateHash(<<>>))
    \/ \E i \in 1..MaxBlocks : TamperPreviousHash(i, <<0>>)

\* the proof-of-stake chain with a caller that also writes to sealed blocks
PosTamperSpec == InitPos /\ [][PosTamperNext]_vars

\* the proof-of-work chain with a caller that also writes to sealed blocks
TamperSpec == InitPow /\ [][TamperNext]_vars

Next ==
    \/ \E f \in FromInputs, t \in ToInputs, a \in AmountInputs : CreateTransaction(f, t, a)
    \/ \E r \in Addresses : MinePendingTransactions(r)
    \/ \E a \in Addresses, n \in StakeInputs : StakeTokens(a, n)
    \/ \E a \in Addresses, n \in UnstakeInputs : UnstakeTokens(a, n)
    \/ SelectValidatorCall
    \/ ForgeBlock
    \/ IsChainValidCall

Spec == Init /\ [][Next]_vars

\* ---------------------------------------------------------------- NoobCoin
\* The coin of part_005.  Amounts are integers, counted in the smallest unit
\* of the coin.  A wallet is its balance and nonce (the public key is random
\* and never read); a transaction leaves out its timestamp and data, which
\* nothing reads.  Transaction ids are handed out by the counter nextId.

\* the variables of the ledger core that the coin and the network leave alone
ledger == <<kind, chain, pendingTransactions, balances, validators, stakeOps, writes>>

NoLedger ==
    /\ chain = <<>>
    /\ pendingTransactions = <<>>
    /\ balances = <<>>
    /\ validators = <<>>
    /\ stakeOps = 0
    /\ writes = 0

\* the specifications handed to the constructor: the distribution, block
\* reward and fee (one unit) of YourCoinSpecs, with a total supply small
\* enough for the rewards of a few blocks to matter
SpecsInputs ==
    {[totalSupply |-> t,
      initialDistribution |-> [founders |-> 15, community |-> 60,
                               development |-> 15, marketing |-> 10],
      blockReward |-> 10,
      transactionFee |-> 1] : t \in {20}}

\* Date.now() of the coin: the timestamp enters nothing but the block hash
CoinTimes == {1}

\* generateAddress(): 'NBC' followed by random hex digits; the model takes the
\* next unused name, so no two wallets share an address
WalletNames == <<"NBC1", "NBC2", "NBC3", "NBC4", "NBC5", "NBC6", "NBC7", "NBC8",
                 "NBC9">>

GenerateAddress(wallets) == WalletNames[Cardinality(DOMAIN wallets) + 1]

\* an address no wallet was ever created for, as a caller may pass one
NoWallet == "miner1"

\* createWallet(label): the wallet is filed under a generated address, whatever
\* the label
NewWallet(wallets) ==
    MapSet(wallets, GenerateAddress(wallets), [balance |-> 0, nonce |-> 0])

\* NoobCoin.calculateBlockHash
CalculateBlockHash(b) ==
    CalculateHash(NumStr(b.index) \o b.previousHash \o NumStr(b.timestamp)
                  \o b.merkleRoot \o NumStr(b.nonce) \o NumStr(b.difficulty))

\* NoobCoin.getMerkleRoot
GetMerkleRoot(hashes) == Reduce(hashes)

\* NoobCoin.calculateMerkleRoot
NoobCalculateMerkleRoot(transactions) ==
    IF Len(transactions) = 0 THEN <<>>
    ELSE IF Len(transactions) = 1 THEN transactions[1].id
    ELSE GetMerkleRoot(TxIds(transactions))

\* NoobCoin.mineProofOfWork from the given nonce on: the block with the nonce
\* and hash the loop ends with
RECURSIVE MineProofOfWorkFrom(_, _)
MineProofOfWorkFrom(b, nonce) ==
    LET hash == CalculateBlockHash([b EXCEPT !.nonce = nonce])
    IN IF Substring0(hash, b.difficulty) = GetDifficultyTarget(b.difficulty)
       THEN [b EXCEPT !.nonce = nonce, !.hash = hash]
       ELSE MineProofOfWorkFrom(b, nonce + 1)

\* block.hash = mineProofOfWork(block): the loop starts from the empty hash
MineProofOfWork(b) == MineProofOfWorkFrom(b, b.nonce + 1)

\* NoobCoin.createGenesisBlock
CreateGenesisBlock(difficulty, ts) ==
    LET b0 == [index |-> 0, timestamp |-> ts,
               transactions |-> <<[id |-> AddrStr("genesis"), from |-> Null,
                                   to |-> "genesis", amount |-> 0, fee |-> 0,
                                   nonce |-> 0]>>,
               previousHash |-> <<0>>, hash |-> <<>>, nonce |-> 0,
               merkleRoot |-> AddrStr("genesis"), difficulty |-> difficulty,
               coinbaseReward |-> 0, totalFees |-> 0]
    IN [b0 EXCEPT !.hash = CalculateBlockHash(b0)]

\* NoobCoin.initializeDistribution: the wallets after the three allocations
InitializeDistribution(specs) ==
    LET distribution == specs.initialDistribution
        w1 == NewWallet(<<>>)
        founderWallet == GenerateAddress(<<>>)
        foundersAllocation == (specs.totalSupply * distribution.founders) \div 100
        w2 == NewWallet([w1 EXCEPT ![founderWallet].balance = foundersAllocation])
        devWallet == GenerateAddress(w1)
        devAllocation == (specs.totalSupply * distribution.development) \div 100
        w3 == NewWallet([w2 EXCEPT ![devWallet].balance = devAllocation])
        marketingWallet == GenerateAddress(w2)
        marketingAllocation == (specs.totalSupply * distribution.marketing) \div 100
    IN [wallets |-> [w3 EXCEPT ![marketingWallet].balance = marketingAllocation],
        circulatingSupply |-> foundersAllocation + devAllocation + marketingAllocation]

\* new NoobCoin(specs)
NewNoobCoin(specs, ts) ==
    LET distributed == InitializeDistribution(specs)
    IN [blockchain |-> <<CreateGenesisBlock(NoobDifficulty, ts)>>,
        pendingTransactions |-> <<>>,
        wallets |-> distributed.wallets,
        difficulty |-> NoobDifficulty,
        blockReward |-> specs.blockReward,
        transactionFee |-> specs.transactionFee,
        totalSupply |-> specs.totalSupply,
        circulatingSupply |-> distributed.circulatingSupply]

InitNoob ==
    /\ kind = "noob"
    /\ NoLedger
    /\ nextId = 1
    /\ \E specs \in SpecsInputs, ts \in CoinTimes : noobCoin = NewNoobCoin(specs, ts)
    /\ nodes = Null
    /\ messageQueues = Null
    /\ timers = Null
    /\ ret = Returned("new", "ok")

\* NoobCoin.createWallet
CreateWallet ==
    /\ kind = "noob"
    /\ Cardinality(DOMAIN noobCoin.wallets) < MaxWallets
    /\ noobCoin' = [noobCoin EXCEPT !.wallets = NewWallet(@)]
    /\ ret' = Returned("createWallet", GenerateAddress(noobCoin.wallets))
    /\ UNCHANGED <<ledger, nextId, nodes, messageQueues, timers>>

\* NoobCoin.sendCoins
SendCoins(from, to, amount) ==
    /\ kind = "noob"
    /\ Len(noobCoin.pendingTransactions) < MaxCoinTx
    /\ IF from \notin DOMAIN noobCoin.wallets
       THEN /\ ret' = Returned("sendCoins", "Sender wallet not found")
            /\ UNCHANGED <<noobCoin, nextId>>
       ELSE LET fromWallet == noobCoin.wallets[from]
                totalCost == amount + noobCoin.transactionFee
            IN IF fromWallet.balance < totalCost
               THEN /\ ret' = Returned("sendCoins", "Insufficient balance")
                    /\ UNCHANGED <<noobCoin, nextId>>
               ELSE /\ noobCoin' = [noobCoin EXCEPT !.pendingTransactions =
                         Append(@, [id |-> GenerateId(nextId), from |-> from,
                                    to |-> to, amount |-> amount,
                                    fee |-> noobCoin.transactionFee,
                                    nonce |-> fromWallet.nonce + 1])]
                    /\ nextId' = nextId + 1
                    /\ ret' = Returned("sendCoins", "ok")
    /\ UNCHANGED <<ledger, nodes, messageQueues, timers>>

\* NoobCoin.processTransactions: the wallets it leaves, and whether it threw.
\* wallets.get(address)! is undefined for an address without a wallet, and
\* reading its balance throws a TypeError; createWallet(tx.to) files the new
\* wallet under a generated address, so the recipient's is still missing
RECURSIVE ProcessTransactions(_, _)
ProcessTransactions(wallets, transactions) ==
    IF transactions = <<>> THEN [wallets |-> wallets, threw |-> FALSE]
    ELSE LET tx == Head(transactions)
         IN IF tx.from # Null /\ tx.from # "" /\ tx.from \notin DOMAIN wallets
            THEN [wallets |-> wallets, threw |-> TRUE]
            ELSE LET w1 == IF tx.from # Null /\ tx.from # ""
                           THEN [wallets EXCEPT
                                   ![tx.from].balance = @ - (tx.amount + tx.fee),
                                   ![tx.from].nonce = @ + 1]
                           ELSE wallets
                 IN IF tx.to \notin DOMAIN w1
                    THEN [wallets |-> NewWallet(w1), threw |-> TRUE]
                    ELSE ProcessTransactions(
                             [w1 EXCEPT ![tx.to].balance = @ + tx.amount],
                             Tail(transactions))

RECURSIVE SumFees(_)
SumFees(transactions) ==
    IF transactions = <<>> THEN 0
    ELSE Head(transactions).fee + SumFees(Tail(transactions))

\* NoobCoin.mineBlock
NoobMineBlock(minerAddress) ==
    /\ kind = "noob"
    /\ Len(noobCoin.blockchain) < MaxCoinBlocks
    /\ \E ts \in CoinTimes :
         LET totalFees == SumFees(noobCoin.pendingTransactions)
             coinbaseTransaction ==
                 [id |-> GenerateId(nextId), from |-> Null, to |-> minerAddress,
                  amount |-> noobCoin.blockReward + totalFees, fee |-> 0,
                  nonce |-> 0]
             transactions == <<coinbaseTransaction>> \o noobCoin.pendingTransactions
             block == MineProofOfWork(
                 [index |-> Len(noobCoin.blockchain), timestamp |-> ts,
                  transactions |-> transactions,
                  previousHash |-> noobCoin.blockchain[Len(noobCoin.blockchain)].hash,
                  hash |-> <<>>, nonce |-> 0,
                  merkleRoot |-> NoobCalculateMerkleRoot(transactions),
                  difficulty |-> noobCoin.difficulty,
                  coinbaseReward |-> noobCoin.blockReward,
                  totalFees |-> totalFees])
             processed == ProcessTransactions(noobCoin.wallets, transactions)
         IN IF processed.threw
            THEN /\ noobCoin' = [noobCoin EXCEPT
                                   !.blockchain = Append(@, block),
                                   !.wallets = processed.wallets]
                 /\ ret' = Returned("mineBlock", "TypeError")
            ELSE /\ noobCoin' = [noobCoin EXCEPT
                                   !.blockchain = Append(@, block),
                                   !.wallets = processed.wallets,
                                   !.pendingTransactions = <<>>,
                                   !.circulatingSupply = @ + noobCoin.blockReward]
                 /\ ret' = Returned("mineBlock", "ok")
    /\ nextId' = nextId + 1
    /\ UNCHANGED <<ledger, nodes, messageQueues, timers>>

\* NoobCoin.getCoinStats().remainingToMine, before it is formatted
RemainingToMine == noobCoin.totalSupply - noobCoin.circulatingSupply

\* what callers pass: the addresses of the wallets, and one without a wallet
WalletInputs == DOMAIN noobCoin.wallets \cup {NoWallet}
CoinAmountInputs == {-5, 2}

NoobNext ==
    \/ CreateWallet
    \/ \E from \in WalletInputs, to \in WalletInputs, amount \in CoinAmountInputs :
          SendCoins(from, to, amount)
    \/ \E minerAddress \in WalletInputs : NoobMineBlock(minerAddress)

NoobSpec == InitNoob /\ [][NoobNext]_vars

\* ------------------------------------------------------------ NetworkNode
\* The peer-to-peer simulation of p2p-network.ts.  Every node owns a
\* proof-of-work Blockchain; a peer is known by "address:port", a node by its
\* generated nodeId.  No peer is ever marked disconnected, so peers is the set
\* of peer ids.  The timestamp of a message is left out: nothing reads it.
\* stopNetwork and disconnectFromPeer are not explored.

NodeIds == {"node-1", "node-2"}

\* `${address}:${port}` of each node, as the demo sets the nodes up
PeerIdOf == [n \in NodeIds |->
               IF n = "node-1" THEN "192.168.1.10:3001" ELSE "192.168.1.11:3002"]

\* Date.now() of the nodes' blocks: the timestamp enters nothing but the hash
NetTimes == {1}

\* the arguments the demo hands to createAndBroadcastTransaction
NetTransactionInputs == {<<Null, "alice", 50>>, <<"alice", "bob", 10>>}

\* new Blockchain(), as a value
NewBlockchain(ts) ==
    [chain |-> <<PowGenesis(ts)>>, pendingTransactions |-> <<>>, balances |-> <<>>]

\* Blockchain.createTransaction on the chain b: the chain it leaves, and
\* whether it threw
CreateTransactionIn(b, transaction) ==
    IF ~IsValid(transaction) THEN [blockchain |-> b, threw |-> TRUE]
    ELSE IF transaction.fromAddress # Null
            /\ GetBalanceIn(b.balances, transaction.fromAddress) < transaction.amount
    THEN [blockchain |-> b, threw |-> TRUE]
    ELSE [blockchain |-> [b EXCEPT !.pendingTransactions = Append(@, transaction)],
          threw |-> FALSE]

\* Blockchain.minePendingTransactions on the chain b
MinePendingTransactionsIn(b, miningRewardAddress, n, ts) ==
    LET rewardTransaction == Transaction(n, Null, miningRewardAddress, MiningReward)
        pool == Append(b.pendingTransactions, rewardTransaction)
        block == MineBlock(TransactionBlock(Len(b.chain), pool,
                                            b.chain[Len(b.chain)].hash, ts), Difficulty)
    IN [chain |-> Append(b.chain, block),
        pendingTransactions |-> <<>>,
        balances |-> UpdateBalances(b.balances, pool)]

\* the network as one value, for the operators below
Network == [nodes |-> nodes, messageQueues |-> messageQueues, timers |-> timers,
            nextId |-> nextId]

Message(type, data, sender) == [type |-> type, data |-> data, sender |-> sender]

\* NetworkNode.sendMessageToPeer: the delivery waits in a timer
SendMessageToPeer(net, n, peerId, message) ==
    [net EXCEPT !.timers = @ \cup {[node |-> n, peerId |-> peerId, message |-> message]}]

\* NetworkNode.broadcastMessage
BroadcastMessage(net, n, message) ==
    IF ~net.nodes[n].isNetworkActive THEN net
    ELSE [net EXCEPT !.timers = @ \cup
            {[node |-> n, peerId |-> peerId, message |-> message] :
                peerId \in net.nodes[n].peers}]

\* NetworkSimulator.deliverMessage
DeliverMessage(net, targetNodeId, message) ==
    [net EXCEPT !.messageQueues[targetNodeId] = Append(@, message)]

\* NetworkNode.simulateMessageReceived: the message is delivered under the
\* nodeId of the node that runs the method, which is the node that sent it
SimulateMessageReceived(net, n, message, fromPeerId) == DeliverMessage(net, n, message)

\* NetworkNode.connectToPeer, with requestBlockchain
ConnectToPeerIn(net, n, peerId) ==
    IF peerId \in net.nodes[n].peers THEN net
    ELSE LET added == [net EXCEPT !.nodes[n].peers = @ \cup {peerId}]
             requested == SendMessageToPeer(added, n, peerId,
                              Message("blockchain_request", [requestedBy |-> n], n))
         IN BroadcastMessage(requested, n,
                Message("peer_discovery", [nodeId |-> n, peerId |-> PeerIdOf[n]], n))

\* NetworkNode.handleBlockchainRequest
HandleBlockchainRequest(net, n, message) ==
    DeliverMessage(net, message.sender,
        Message("blockchain_response",
                [blockchain |-> net.nodes[n].blockchain.chain,
                 chainLength |-> Len(net.nodes[n].blockchain.chain)], n))

\* NetworkNode.handleBlockchainResponse: both branches only log
HandleBlockchainResponse(net, n, message) == net

\* NetworkNode.handleNewTransaction
HandleNewTransaction(net, n, message) ==
    LET txData == message.data
        transaction == Transaction(net.nextId, txData.fromAddress, txData.toAddress,
                                   txData.amount)
        created == CreateTransactionIn(net.nodes[n].blockchain, transaction)
    IN IF created.threw THEN net
       ELSE [net EXCEPT !.nodes[n].blockchain = created.blockchain,
                        !.nextId = @ + 1]

\* NetworkNode.handleNewBlock: only logs
HandleNewBlock(net, n, message) == net

\* NetworkNode.handlePeerDiscovery
HandlePeerDiscovery(net, n, message) ==
    LET peerData == message.data
    IN IF peerData.peerId \notin net.nodes[n].peers /\ peerData.nodeId # n
       THEN ConnectToPeerIn(net, n, peerData.peerId)
       ELSE net

\* NetworkNode.handleIncomingMessage
HandleIncomingMessage(net, n, message) ==
    CASE message.type = "blockchain_request" -> HandleBlockchainRequest(net, n, message)
      [] message.type = "blockchain_response" -> HandleBlockchainResponse(net, n, message)
      [] message.type = "new_transaction" -> HandleNewTransaction(net, n, message)
      [] message.type = "new_block" -> HandleNewBlock(net, n, message)
      [] message.type = "peer_discovery" -> HandlePeerDiscovery(net, n, message)

\* one tick of the interval of processMessageQueue: the node's queue is
\* drained, messages delivered to it meanwhile included
RECURSIVE DrainQueue(_, _)
DrainQueue(net, n) ==
    IF net.messageQueues[n] = <<>> THEN net
    ELSE LET message == Head(net.messageQueues[n])
             shifted == [net EXCEPT !.messageQueues[n] = Tail(@)]
         IN DrainQueue(HandleIncomingMessage(shifted, n, message), n)

\* messages in timers and in queues
RECURSIVE Queued(_)
Queued(ns) ==
    IF ns = {} THEN 0
    ELSE LET n == CHOOSE x \in ns : TRUE
         IN Len(messageQueues[n]) + Queued(ns \ {n})

InFlight == Cardinality(timers) + Queued(NodeIds)

\* the network after an operation
Becomes(net) ==
    /\ nodes' = net.nodes
    /\ messageQueues' = net.messageQueues
    /\ timers' = net.timers
    /\ nextId' = net.nextId

\* the nodes of the demo, constructed and not yet started
InitNet ==
    /\ kind = "net"
    /\ NoLedger
    /\ nextId = 1
    /\ noobCoin = Null
    /\ \E ts \in NetTimes :
          nodes = [n \in NodeIds |-> [blockchain |-> NewBlockchain(ts),
                                      peers |-> {},
                                      isNetworkActive |-> FALSE]]
    /\ messageQueues = [n \in NodeIds |-> <<>>]
    /\ timers = {}
    /\ ret = Returned("new", "ok")

\* NetworkNode.startNetwork, on a node that is not running: the flag is set
\* and the interval of processMessageQueue installed
StartNetwork(n) ==
    /\ kind = "net"
    /\ ~nodes[n].isNetworkActive
    /\ nodes' = [nodes EXCEPT ![n].isNetworkActive = TRUE]
    /\ ret' = Returned("startNetwork", n)
    /\ UNCHANGED <<ledger, nextId, noobCoin, messageQueues, timers>>

\* NetworkNode.connectToPeer
ConnectToPeer(n, peerId) ==
    /\ kind = "net"
    /\ InFlight < MaxInFlight
    /\ Becomes(ConnectToPeerIn(Network, n, peerId))
    /\ ret' = Returned("connectToPeer",
                       IF peerId \in nodes[n].peers THEN "false" ELSE "true")
    /\ UNCHANGED <<ledger, noobCoin>>

\* NetworkNode.createAndBroadcastTransaction
CreateAndBroadcastTransaction(n, fromAddress, toAddress, amount) ==
    /\ kind = "net"
    /\ InFlight < MaxInFlight
    /\ nextId <= MaxNetTx
    /\ LET transaction == Transaction(nextId, fromAddress, toAddress, amount)
           created == CreateTransactionIn(nodes[n].blockchain, transaction)
       IN IF created.threw
          THEN /\ ret' = Returned("createAndBroadcastTransaction", "failed")
               /\ UNCHANGED <<nodes, messageQueues, timers, nextId>>
          ELSE /\ Becomes(BroadcastMessage(
                      [Network EXCEPT !.nodes[n].blockchain = created.blockchain,
                                      !.nextId = @ + 1],
                      n,
                      Message("new_transaction",
                              [id |-> transaction.id,
                               fromAddress |-> transaction.fromAddress,
                               toAddress |-> transaction.toAddress,
                               amount |-> transaction.amount], n)))
               /\ ret' = Returned("createAndBroadcastTransaction", "ok")
    /\ UNCHANGED <<ledger, noobCoin>>

\* NetworkNode.mineAndBroadcastBlock
MineAndBroadcastBlock(n, miningRewardAddress) ==
    /\ kind = "net"
    /\ InFlight < MaxInFlight
    /\ Len(nodes[n].blockchain.chain) < MaxNetBlocks
    /\ \E ts \in NetTimes :
         LET mined == MinePendingTransactionsIn(nodes[n].blockchain,
                                                miningRewardAddress, nextId, ts)
             newBlock == mined.chain[Len(mined.chain)]
         IN Becomes(BroadcastMessage(
                [Network EXCEPT !.nodes[n].blockchain = mined, !.nextId = @ + 1],
                n,
                Message("new_block",
                        [index |-> newBlock.index, hash |-> newBlock.hash,
                         previousHash |-> newBlock.previousHash,
                         transactions |-> newBlock.transactions,
                         timestamp |-> newBlock.timestamp,
                         nonce |-> newBlock.nonce], n)))
    /\ ret' = Returned("mineAndBroadcastBlock", n)
    /\ UNCHANGED <<ledger, noobCoin>>

\* a callback of setTimeout in sendMessageToPeer runs
TimerFires(timer) ==
    /\ kind = "net"
    /\ timer \in timers
    /\ Becomes(SimulateMessageReceived([Network EXCEPT !.timers = @ \ {timer}],
                                       timer.node, timer.message, timer.peerId))
    /\ ret' = Returned("simulateMessageReceived", timer.node)
    /\ UNCHANGED <<ledger, noobCoin>>

\* the interval of processMessageQueue ticks on a started node with messages
ProcessMessageQueue(n) ==
    /\ kind = "net"
    /\ nodes[n].isNetworkActive
    /\ messageQueues[n] # <<>>
    /\ Becomes(DrainQueue(Network, n))
    /\ ret' = Returned("processMessageQueue", n)
    /\ UNCHANGED <<ledger, noobCoin>>

NetNext ==
    \/ \E n \in NodeIds : StartNetwork(n)
    \/ \E n \in NodeIds : \E m \in NodeIds \ {n} : ConnectToPeer(n, PeerIdOf[m])
    \/ \E n \in NodeIds, tx \in NetTransactionInputs :
          CreateAndBroadcastTransaction(n, tx[1], tx[2], tx[3])
    \/ \E n \in NodeIds : MineAndBroadcastBlock(n, "alice")
    \/ \E timer \in timers : TimerFires(timer)
    \/ \E n \in NodeIds : ProcessMessageQueue(n)

NetSpec == InitNet /\ [][NetNext]_vars

\* the timers of setTimeout run and the intervals of setInterval keep ticking
NetFairSpec ==
    /\ NetSpec
    /\ WF_vars(\E timer \in timers : TimerFires(timer))
    /\ \A n \in NodeIds : WF_vars(ProcessMessageQueue(n))

\* ------------------------------------------------------------- properties
\* what the claims speak of, stated on the state and not through the operators
\* that model the code

\* the balance the map holds for an address, 0 when it holds none
Held(bal, a) == IF a \in DOMAIN bal THEN bal[a] ELSE 0

\* the hash starts with the difficulty target
MeetsTarget(h) == Len(h) >= Difficulty /\ \A k \in 1..Difficulty : h[k] = 0

RECURSIVE SealedTransactions(_)
SealedTransactions(blocks) ==
    IF blocks = <<>> THEN <<>>
    ELSE Head(blocks).transactions \o SealedTransactions(Tail(blocks))

RECURSIVE Credited(_, _)
Credited(txs, a) ==
    IF txs = <<>> THEN 0
    ELSE (IF Head(txs).toAddress = a THEN Head(txs).amount ELSE 0)
         + Credited(Tail(txs), a)

RECURSIVE Debited(_, _)
Debited(txs, a) ==
    IF txs = <<>> THEN 0
    ELSE (IF Head(txs).fromAddress = a THEN Head(txs).amount ELSE 0)
         + Debited(Tail(txs), a)

RECURSIVE SumOf(_, _)
SumOf(bal, keys) ==
    IF keys = {} THEN 0
    ELSE LET k == CHOOSE x \in keys : TRUE
         IN bal[k] + SumOf(bal, keys \ {k})

SumBalances == SumOf(balances, DOMAIN balances)

\* the amounts of the sender-less transactions of a sequence, added up
RECURSIVE Minted(_)
Minted(txs) ==
    IF txs = <<>> THEN 0
    ELSE (IF Head(txs).fromAddress = Null THEN Head(txs).amount ELSE 0)
         + Minted(Tail(txs))

\* the sender-less amounts of the blocks' transactions other than each block's
\* last one, which is the reward added at sealing
RECURSIVE Submitted(_)
Submitted(blocks) ==
    IF blocks = <<>> THEN 0
    ELSE LET txs == Head(blocks).transactions
         IN Minted(SubSeq(txs, 1, Len(txs) - 1)) + Submitted(Tail(blocks))

ProbeAddresses == Addresses \cup {"genesis", "carol"} \cup DOMAIN balances

SealedTransfer ==
    \E i \in 2..Len(chain) : \E j \in 1..Len(chain[i].transactions) :
        chain[i].transactions[j].fromAddress \in Addresses

\* C1: in both chains every block after the first carries the hash of the
\* block before it as its previousHash
ChainLinkage == \A i \in 2..Len(chain) : chain[i].previousHash = chain[i - 1].hash

ChainLinkageWitness ==
    /\ kind = "pos"
    /\ Len(chain) >= 3
    /\ Len(chain[3].transactions) >= 2
    /\ chain[3].previousHash = chain[2].hash

\* C2: the stored hash of every block, genesis included, is the hash
\* recomputed from its header fields
HashBinding == \A i \in 1..Len(chain) : chain[i].hash = BlockCalculateHash(chain[i])

HashBindingWitness ==
    /\ kind = "pow"
    /\ Len(chain) >= 3
    /\ \E i \in 2..Len(chain) : chain[i].nonce > 0

\* C3: once the amount of a transaction in a sealed block has been overwritten
\* with a different value, isChainValid() is false
TamperDetected ==
    [][(\E i \in 1..MaxBlocks, j \in 1..(MaxTx + 1), v \in TamperAmounts :
            TamperAmount(i, j, v)) => ~IsChainValid']_vars

\* C4: in the proof-of-work chain the balance of every address is what the
\* sealed transactions credit to it minus what they debit from it, and 0 for
\* an address that appears in none
LedgerInvariant ==
    kind = "pow" =>
        \A a \in ProbeAddresses :
            /\ GetBalance(a) = Credited(SealedTransactions(chain), a)
                               - Debited(SealedTransactions(chain), a)
            /\ GetBalance("carol") = 0

LedgerInvariantWitness ==
    /\ kind = "pow"
    /\ Len(chain) >= 3
    /\ SealedTransfer
    /\ \E a \in Addresses : Debited(SealedTransactions(chain), a) > 0

\* C5: createTransaction appends the transaction to the end of the pool exactly
\* when it is valid and its sender is null or holds at least the amount in the
\* sealed ledger; otherwise it raises the invalid-transaction error, or for a
\* valid transaction the balance error, and the pool is unchanged
CreateTransactionContract ==
    [][\A f \in FromInputs, t \in ToInputs, a \in AmountInputs :
          CreateTransaction(f, t, a) =>
            LET tx == Transaction(nextId, f, t, a)
                accepted == IsValid(tx) /\ (f = Null \/ Held(balances, f) >= a)
            IN /\ accepted =>
                    /\ pendingTransactions' = Append(pendingTransactions, tx)
                    /\ ret'.result = "ok"
               /\ ~accepted =>
                    /\ pendingTransactions' = pendingTransactions
                    /\ ret'.result = IF ~IsValid(tx)
                                     THEN "Cannot add invalid transaction to chain"
                                     ELSE "Not enough balance"]_vars

CreateTransactionContractWitness ==
    /\ ret = Returned("createTransaction", "ok")
    /\ Len(pendingTransactions) = 2
    /\ pendingTransactions[1].fromAddress \in Addresses
    /\ pendingTransactions[2].fromAddress = pendingTransactions[1].fromAddress
    /\ pendingTransactions[1].amount + pendingTransactions[2].amount
         > Held(balances, pendingTransactions[1].fromAddress)

\* C6: a createTransaction call, accepted or rejected, changes neither the
\* balance map nor the chain
CreateTransactionFrame ==
    [][ret'.op = "createTransaction" => (balances' = balances /\ chain' = chain)]_vars

CreateTransactionFrameWitness ==
    /\ ret = Returned("createTransaction", "ok")
    /\ Len(chain) >= 2
    /\ pendingTransactions[Len(pendingTransactions)].fromAddress \in Addresses

\* C7: minePendingTransactions(r) appends one block with index = old chain
\* length and previousHash = old latest hash, holding the pool in submission
\* order and one coinbase transaction of miningReward to r; it applies the
\* block to the ledger and empties the pool.  From a fresh chain, submitting
\* Transaction(null, alice, 50) and sealing for alice gives length 2 and
\* alice 50 + miningReward
MineContract ==
    /\ [][\A r \in Addresses :
            MinePendingTransactions(r) =>
              LET block == chain'[Len(chain')]
                  n == Len(pendingTransactions)
              IN /\ Len(chain') = Len(chain) + 1
                 /\ SubSeq(chain', 1, Len(chain)) = chain
                 /\ block.index = Len(chain)
                 /\ block.previousHash = chain[Len(chain)].hash
                 /\ Len(block.transactions) = n + 1
                 /\ SubSeq(block.transactions, 1, n) = pendingTransactions
                 /\ block.transactions[n + 1].fromAddress = Null
                 /\ block.transactions[n + 1].toAddress = r
                 /\ block.transactions[n + 1].amount = MiningReward
                 /\ \A a \in ProbeAddresses \cup DOMAIN balances' :
                        Held(balances', a) = Held(balances, a)
                                             + Credited(block.transactions, a)
                                             - Debited(block.transactions, a)
                 /\ pendingTransactions' = <<>>]_vars
    /\ []((/\ kind = "pow"
           /\ Len(chain) = 2
           /\ Len(chain[2].transactions) = 2
           /\ chain[2].transactions[1].fromAddress = Null
           /\ chain[2].transactions[1].toAddress = "alice"
           /\ chain[2].transactions[1].amount = 50
           /\ chain[2].transactions[2].toAddress = "alice")
          => Held(balances, "alice") = 50 + MiningReward)

MineContractWitness ==
    /\ kind = "pow"
    /\ ret = Returned("minePendingTransactions", "ok")
    /\ Len(chain) = 2
    /\ Len(chain[2].transactions) = 2
    /\ chain[2].transactions[1].toAddress = "alice"
    /\ chain[2].transactions[1].amount = 50
    /\ chain[2].transactions[2].toAddress = "alice"
    /\ Held(balances, "alice") = 60
    /\ pendingTransactions = <<>>

\* C8 as written: every block of the proof-of-work chain, the genesis block
\* included, has a hash that starts with the difficulty target
PowTargetAllBlocks ==
    kind = "pow" => \A i \in 1..Len(chain) : MeetsTarget(chain[i].hash)

\* C8: every block sealed by minePendingTransactions (index >= 1) has a hash
\* that starts with the difficulty target; the genesis block is never mined
PowTargetMinedBlocks ==
    kind = "pow" => \A i \in 2..Len(chain) : MeetsTarget(chain[i].hash)

PowTargetMinedBlocksWitness ==
    /\ kind = "pow"
    /\ Len(chain) >= 3
    /\ ~MeetsTarget(chain[1].hash)
    /\ \E i \in 2..Len(chain) : chain[i].nonce > 1

\* a block the proof-of-work isChainValid() rejects
RejectedBlock(i) ==
    \/ \E j \in 1..Len(chain[i].transactions) : ~IsValid(chain[i].transactions[j])
    \/ chain[i].hash # PowCalculateHash(chain[i])
    \/ chain[i].previousHash # chain[i - 1].hash
    \/ ~MeetsTarget(chain[i].hash)

\* C9: the proof-of-work isChainValid() returns false exactly when some block
\* of index >= 1 has an invalid transaction, a stored hash other than the
\* recomputed one, a previousHash other than its predecessor's stored hash, or
\* a hash missing the target; the genesis block is not checked
ValidationContract ==
    (kind = "pow" /\ ret.op = "isChainValid") =>
        /\ ret.result \in {"true", "false"}
        /\ ret.result = "false" <=> \E i \in 2..Len(chain) : RejectedBlock(i)
        /\ Len(chain) = 1 => ret.result = "true"

ValidationContractWitness ==
    /\ kind = "pow"
    /\ ret = Returned("isChainValid", "false")
    /\ \E i \in 2..Len(chain) : ~MeetsTarget(chain[i].hash)
    /\ \A i \in 2..Len(chain) :
          /\ \A j \in 1..Len(chain[i].transactions) : IsValid(chain[i].transactions[j])
          /\ chain[i].hash = PowCalculateHash(chain[i])
          /\ chain[i].previousHash = chain[i - 1].hash

\* C10 as written: on a proof-of-work chain none of whose mined blocks holds
\* the coinbase transaction alone, the balances add up to the number of mined
\* blocks times miningReward
ConservationRewardsOnly ==
    (kind = "pow" /\ \A i \in 2..Len(chain) : Len(chain[i].transactions) > 1)
        => SumBalances = (Len(chain) - 1) * MiningReward

\* C10: on the proof-of-work chain the balances add up to the amounts of all
\* sender-less transactions in sealed blocks: miningReward for each mined block
\* plus the coinbase transactions callers submitted through createTransaction
ConservationCoinbase ==
    kind = "pow" =>
        /\ SumBalances = Minted(SealedTransactions(chain))
        /\ SumBalances = (Len(chain) - 1) * MiningReward + Submitted(Tail(chain))

ConservationCoinbaseWitness ==
    /\ kind = "pow"
    /\ Len(chain) >= 3
    /\ SealedTransfer
    /\ \A i \in 2..Len(chain) : Len(chain[i].transactions) > 1
    /\ SumBalances # (Len(chain) - 1) * MiningReward

\* C11 as written: on the proof-of-work chain, the transfers of one sender
\* sealed into a block never add up to more than the non-negative balance the
\* sender held before the block was sealed
DoubleSpendPrevented ==
    [][\A r \in Addresses :
         MinePendingTransactions(r) =>
           \A a \in Addresses :
              Held(balances, a) >= 0 =>
                 Debited(chain'[Len(chain')].transactions, a) <= Held(balances, a)]_vars

\* the stake the registry records for an address, 0 when it records none
StakeOf(vs, a) == SumStake(SelectSeq(vs, LAMBDA v : v.address = a))

Registered(vs, a) == \E i \in 1..Len(vs) : vs[i].address = a

\* C12: on the proof-of-stake chain an address is in the validator registry
\* exactly when the stake recorded for it is at least minimumStake, and every
\* registered validator is active, holds at least minimumStake and is
\* registered once
StakeThreshold ==
    kind = "pos" =>
        /\ \A i \in 1..Len(validators) :
              /\ validators[i].isActive
              /\ validators[i].stake >= MinimumStake
              /\ \A j \in 1..Len(validators) :
                    validators[j].address = validators[i].address => j = i
        /\ \A a \in ProbeAddresses :
              Registered(validators, a) <=> StakeOf(validators, a) >= MinimumStake

\* alice staked 40 and withdrew 10: the remaining 30 is below the minimum and
\* she is no longer registered
StakeThresholdWitness ==
    /\ kind = "pos"
    /\ ret = Returned("unstakeTokens", "true")
    /\ Held(balances, "alice") = 20
    /\ ~Registered(validators, "alice")

\* C13: stakeTokens(address, amount) with a balance below amount, or with
\* amount below minimumStake, returns false and leaves the balances, the
\* registry, the pool and the chain as they were, also when the address is
\* already a validator
StakeRejected ==
    [][\A a \in Addresses, n \in StakeInputs :
         (StakeTokens(a, n) /\ (Held(balances, a) < n \/ n < MinimumStake)) =>
            /\ ret' = Returned("stakeTokens", "false")
            /\ UNCHANGED <<balances, validators, pendingTransactions, chain>>]_vars

\* a stakeTokens call has just failed while alice is registered with a stake
\* of 40 and holds the 10 tokens that a top-up of 10 asks for
StakeRejectedWitness ==
    /\ kind = "pos"
    /\ ret = Returned("stakeTokens", "false")
    /\ Registered(validators, "alice")
    /\ StakeOf(validators, "alice") = 40
    /\ Held(balances, "alice") = 10
    /\ ~Registered(validators, "bob")

\* C14: a stakeTokens(address, amount) call that succeeds takes exactly amount
\* from the balance of the address and adds exactly amount to its recorded
\* stake, registering it with stake amount when it was not registered; no
\* other balance or stake changes
StakeApplied ==
    [][\A a \in Addresses, n \in StakeInputs :
         (StakeTokens(a, n) /\ Held(balances, a) >= n /\ n >= MinimumStake) =>
            /\ ret' = Returned("stakeTokens", "true")
            /\ Held(balances', a) = Held(balances, a) - n
            /\ Registered(validators', a)
            /\ StakeOf(validators', a) = StakeOf(validators, a) + n
            /\ \A b \in ProbeAddresses \cup DOMAIN balances' : b # a =>
                  /\ Held(balances', b) = Held(balances, b)
                  /\ StakeOf(validators', b) = StakeOf(validators, b)
                  /\ Registered(validators', b) <=> Registered(validators, b)]_vars

\* alice staked 40, was paid 50 in a forged block and staked 40 again
StakeAppliedWitness ==
    /\ kind = "pos"
    /\ ret = Returned("stakeTokens", "true")
    /\ StakeOf(validators, "alice") = 80
    /\ Len(chain) >= 2

\* C15: an unstakeTokens(address, amount) call by a validator whose stake is
\* at least amount lowers the stake by amount, removes the validator from the
\* registry exactly when the lowered stake is below minimumStake, and adds
\* exactly amount to the balance of the address
UnstakeApplied ==
    [][\A a \in Addresses, n \in UnstakeInputs :
         (UnstakeTokens(a, n) /\ Registered(validators, a)
                              /\ StakeOf(validators, a) >= n) =>
            LET lowered == StakeOf(validators, a) - n
            IN /\ ret' = Returned("unstakeTokens", "true")
               /\ Registered(validators', a) <=> lowered >= MinimumStake
               /\ Registered(validators', a) => StakeOf(validators', a) = lowered
               /\ Held(balances', a) = Held(balances, a) + n
               /\ \A b \in ProbeAddresses \cup DOMAIN balances' : b # a =>
                     /\ Held(balances', b) = Held(balances, b)
                     /\ StakeOf(validators', b) = StakeOf(validators, b)]_vars

\* alice staked 50 and withdrew 10: she is still registered, with 40
UnstakeAppliedWitness ==
    /\ kind = "pos"
    /\ ret = Returned("unstakeTokens", "true")
    /\ Registered(validators, "alice")
    /\ StakeOf(validators, "alice") = 40
    /\ Held(balances, "alice") = 10

\* C16: unstakeTokens(address, amount) by an address that is not a registered
\* validator, or whose recorded stake is below amount, returns false and
\* leaves the balances and the registry as they were
UnstakeRejected ==
    [][\A a \in Addresses, n \in UnstakeInputs :
         (UnstakeTokens(a, n) /\ (~Registered(validators, a)
                                  \/ StakeOf(validators, a) < n)) =>
            /\ ret' = Returned("unstakeTokens", "false")
            /\ UNCHANGED <<balances, validators>>]_vars

\* an unstakeTokens call has just failed while alice is registered with a
\* stake of 40, less than the 50 a call can ask for, and bob is not registered
UnstakeRejectedWitness ==
    /\ kind = "pos"
    /\ ret = Returned("unstakeTokens", "false")
    /\ StakeOf(validators, "alice") = 40
    /\ ~Registered(validators, "bob")
    /\ Held(balances, "alice") = 10
    /\ Held(balances, "bob") = 40

\* C17: selectValidator() returns null exactly when the registry holds no
\* active validator, returns the address of a registered validator otherwise,
\* and writes nothing
SelectionContract ==
    [][SelectValidatorCall =>
         /\ ret'.op = "selectValidator"
         /\ ret'.result = Null
               <=> ~\E i \in 1..Len(validators) : validators[i].isActive
         /\ ret'.result # Null => Registered(validators, ret'.result)
         /\ UNCHANGED <<chain, pendingTransactions, balances, validators>>]_vars

\* selectValidator() has returned null on a registry that a stake and an
\* unstake left empty
SelectionContractWitness ==
    /\ kind = "pos"
    /\ ret = Returned("selectValidator", Null)
    /\ validators = <<>>
    /\ stakeOps = 2

\* the stake of the first k validators of a sequence, added up
CumulativeStake(vs, k) == SumStake(SubSeq(vs, 1, k))

\* C18: for every draw r in [0, total active stake) selectValidator returns the
\* first validator, in registry order, whose cumulative stake is at least r;
\* the walk itself finds it, so the fallback return is not reached; and every
\* validator with a positive stake is returned for some draw
WeightedWalk ==
    kind = "pos" =>
        LET vs == SelectSeq(validators, LAMBDA v : v.isActive)
            totalStake == CumulativeStake(vs, Len(vs))
        IN /\ \A r \in 0..(totalStake - 1) :
                 /\ Walk(vs, 0, r) # Null
                 /\ \E k \in 1..Len(vs) :
                       /\ CumulativeStake(vs, k) >= r
                       /\ \A j \in 1..(k - 1) : CumulativeStake(vs, j) < r
                       /\ SelectValidator(r) = vs[k].address
           /\ \A k \in 1..Len(vs) :
                 vs[k].stake > 0 =>
                    \E r \in 0..(totalStake - 1) : SelectValidator(r) = vs[k].address

\* two validators are registered and selectValidator() has returned the second
WeightedWalkWitness ==
    /\ kind = "pos"
    /\ Len(validators) = 2
    /\ ret = Returned("selectValidator", validators[2].address)

\* C19: forgeBlock() on a registry without an active validator returns false
\* and leaves the chain, the pool, the balances and the registry as they were
ForgeRejected ==
    [][(ForgeBlock /\ ~\E i \in 1..Len(validators) : validators[i].isActive) =>
         /\ ret' = Returned("forgeBlock", "false")
         /\ UNCHANGED <<chain, pendingTransactions, balances, validators>>]_vars

\* forgeBlock() has failed on a chain of the genesis block alone while a
\* transfer is waiting in the pool
ForgeRejectedWitness ==
    /\ kind = "pos"
    /\ ret = Returned("forgeBlock", "false")
    /\ validators = <<>>
    /\ Len(chain) = 1
    /\ \E i \in 1..Len(pendingTransactions) :
          pendingTransactions[i].fromAddress \in Addresses

\* C20: forgeBlock() on a registry with an active validator returns true and
\* appends one block, linked to the last one, whose validator is a registered
\* validator and whose validatorBalance is that validator's stake; the block
\* holds the pool in order and then one coinbase transaction of blockReward to
\* that validator, and its hash is the hash of its header fields; the block is
\* applied to the ledger, the registry keeps every stake, and the pool is empty
ForgeContract ==
    [][(ForgeBlock /\ \E i \in 1..Len(validators) : validators[i].isActive) =>
         LET block == chain'[Len(chain')]
             n == Len(pendingTransactions)
         IN /\ ret' = Returned("forgeBlock", "true")
            /\ Len(chain') = Len(chain) + 1
            /\ SubSeq(chain', 1, Len(chain)) = chain
            /\ block.index = Len(chain)
            /\ block.previousHash = chain[Len(chain)].hash
            /\ Registered(validators, block.validator)
            /\ block.validatorBalance = StakeOf(validators, block.validator)
            /\ Len(block.transactions) = n + 1
            /\ SubSeq(block.transactions, 1, n) = pendingTransactions
            /\ block.transactions[n + 1].fromAddress = Null
            /\ block.transactions[n + 1].toAddress = block.validator
            /\ block.transactions[n + 1].amount = BlockReward
            /\ block.hash = PosCalculateHash(block)
            /\ \A a \in ProbeAddresses \cup DOMAIN balances' :
                   Held(balances', a) = Held(balances, a)
                                        + Credited(block.transactions, a)
                                        - Debited(block.transactions, a)
            /\ validators' = validators
            /\ pendingTransactions' = <<>>]_vars

\* bob staked his 40 and forged a block that seals a transfer of 10 from
\* alice to him: the block records stake 40, bob holds the 10 and the reward
ForgeContractWitness ==
    /\ kind = "pos"
    /\ ret = Returned("forgeBlock", "true")
    /\ Len(chain) = 2
    /\ chain[2].validator = "bob"
    /\ chain[2].validatorBalance = 40
    /\ Len(chain[2].transactions) = 2
    /\ chain[2].transactions[1].fromAddress = "alice"
    /\ Held(balances, "bob") = 10 + BlockReward
    /\ StakeOf(validators, "bob") = 40
    /\ pendingTransactions = <<>>

\* the call that has just returned sealed a block
Sealing(r) == r.op = "minePendingTransactions" \/ r = Returned("forgeBlock", "true")

\* the call that has just returned moved tokens between balance and stake
Staking(r) == r = Returned("stakeTokens", "true") \/ r = Returned("unstakeTokens", "true")

\* C21 as written: in both chains every operation other than
\* minePendingTransactions and a successful forgeBlock leaves every balance
\* as it was
LedgerOnlySealing ==
    [][~Sealing(ret') => \A a \in ProbeAddresses \cup DOMAIN balances' :
                            Held(balances', a) = Held(balances, a)]_vars

\* C21: in both chains every operation other than minePendingTransactions, a
\* successful forgeBlock, a successful stakeTokens and a successful
\* unstakeTokens leaves every balance as it was; a successful stakeTokens or
\* unstakeTokens changes the balance of one address and no other
LedgerSealingOrStaking ==
    [][/\ (~Sealing(ret') /\ ~Staking(ret')) =>
             \A a \in ProbeAddresses \cup DOMAIN balances' :
                Held(balances', a) = Held(balances, a)
       /\ Staking(ret') =>
             \E a \in Addresses :
                /\ Held(balances', a) # Held(balances, a)
                /\ \A b \in ProbeAddresses \cup DOMAIN balances' :
                      b # a => Held(balances', b) = Held(balances, b)]_vars

\* a stakeTokens call has failed on the proof-of-stake chain after bob had
\* staked his 40; no block was sealed and alice still holds her 50
LedgerSealingOrStakingWitness ==
    /\ kind = "pos"
    /\ ret = Returned("stakeTokens", "false")
    /\ Len(chain) = 1
    /\ StakeOf(validators, "bob") = 40
    /\ Held(balances, "bob") = 0
    /\ Held(balances, "alice") = 50

\* C22: isValid() answers true for every transaction whose fromAddress is
\* null, whatever its amount and recipient; for any other transaction it
\* answers true exactly when the amount is positive, both addresses are
\* non-empty and they differ; it answers for every transaction
TransactionValidity ==
    ret.op = "isValid" =>
        LET tx == ret.result.transaction
        IN /\ ret.result.valid \in BOOLEAN
           /\ tx.fromAddress = Null => ret.result.valid
           /\ tx.fromAddress # Null =>
                 (ret.result.valid <=> /\ tx.amount > 0
                                       /\ tx.fromAddress # ""
                                       /\ tx.toAddress # ""
                                       /\ tx.fromAddress # tx.toAddress)

\* isValid() has answered true for a coinbase transaction of -50 to the
\* empty address
TransactionValidityWitness ==
    /\ ret.op = "isValid"
    /\ ret.result.transaction.fromAddress = Null
    /\ ret.result.transaction.toAddress = ""
    /\ ret.result.transaction.amount = -50
    /\ ret.result.valid

\* one round of pairing: adjacent elements left to right, the last one with
\* itself when the level has odd length
PairUp(level) ==
    [k \in 1..((Len(level) + 1) \div 2) |->
        LET left == level[2 * k - 1]
            right == IF 2 * k <= Len(level) THEN level[2 * k] ELSE left
        IN CalculateHash(left \o right)]

RECURSIVE PairedRoot(_)
PairedRoot(level) == IF Len(level) = 1 THEN level[1] ELSE PairedRoot(PairUp(level))

\* what the merkle root of a sequence of ids is said to be
MerkleRootClaimed(ids) ==
    /\ ret.result.root = IF ids = <<>> THEN CalculateHash(<<>>) ELSE PairedRoot(ids)
    /\ Len(ids) = 1 => ret.result.root = ids[1]
    /\ Len(ids) = 2 =>
          /\ ret.result.root = CalculateHash(ids[1] \o ids[2])
          /\ CalculateHash(ids[1] \o ids[2]) # CalculateHash(ids[2] \o ids[1])
                => ret.result.root # CalculateMerkleRoot(<<ids[2], ids[1]>>)
    /\ Len(ids) = 3 =>
          ret.result.root = CalculateHash(CalculateHash(ids[1] \o ids[2])
                                          \o CalculateHash(ids[3] \o ids[3]))

\* C23 as written: for every sequence of ids calculateMerkleRoot returns
\* hash("") when it is empty, the id itself when it holds one, and otherwise
\* the value left after pairing adjacent elements, the last with itself on a
\* level of odd length; [a,b] gives hash(a+b) and [a,b,c] gives
\* hash(hash(a+b) + hash(c+c))
MerkleRootAnyIds ==
    ret.op = "calculateMerkleRoot" => MerkleRootClaimed(ret.result.transactionIds)

\* C23: the same for every sequence of non-empty ids; where the hash tells
\* a+b from b+a the roots of [a,b] and [b,a] differ
MerkleRootNonEmptyIds ==
    (/\ ret.op = "calculateMerkleRoot"
     /\ \A i \in 1..Len(ret.result.transactionIds) :
           ret.result.transactionIds[i] # <<>>)
        => MerkleRootClaimed(ret.result.transactionIds)

\* the root of three distinct non-empty ids has been computed and is not the
\* root of the same ids with the first two swapped
MerkleRootNonEmptyIdsWitness ==
    /\ ret.op = "calculateMerkleRoot"
    /\ ret.result.transactionIds = <<GenerateId(1), GenerateId(2), GenerateId(3)>>
    /\ ret.result.root
          = CalculateHash(CalculateHash(GenerateId(1) \o GenerateId(2))
                          \o CalculateHash(GenerateId(3) \o GenerateId(3)))
    /\ ret.result.root
          # CalculateMerkleRoot(<<GenerateId(2), GenerateId(1), GenerateId(3)>>)

\* a block the proof-of-stake isChainValid() rejects
PosRejectedBlock(i) ==
    \/ \E j \in 1..Len(chain[i].transactions) :
          LET tx == chain[i].transactions[j]
          IN /\ tx.fromAddress # Null
             /\ \/ tx.amount <= 0
                \/ tx.fromAddress = ""
                \/ tx.toAddress = ""
                \/ tx.fromAddress = tx.toAddress
    \/ chain[i].hash # PosCalculateHash(chain[i])
    \/ chain[i].previousHash # chain[i - 1].hash

\* C24: the proof-of-stake isChainValid() returns true exactly when every block
\* of index >= 1 has valid transactions only, a stored hash equal to the
\* recomputed one and a previousHash equal to its predecessor's stored hash;
\* whether a hash meets the difficulty target plays no part, and the call
\* always returns
PosValidationContract ==
    (kind = "pos" /\ ret.op = "isChainValid") =>
        /\ ret.result \in {"true", "false"}
        /\ ret.result = "true" <=> \A i \in 2..Len(chain) : ~PosRejectedBlock(i)

\* the proof-of-stake isChainValid() has returned true on a chain of three
\* blocks none of whose forged blocks has a hash meeting the target
PosValidationContractWitness ==
    /\ kind = "pos"
    /\ ret = Returned("isChainValid", "true")
    /\ Len(chain) = 3
    /\ writes = 0
    /\ \A i \in 2..Len(chain) : ~MeetsTarget(chain[i].hash)

\* C25: in both chains no operation removes, reorders or changes a block of
\* the chain: minePendingTransactions and a successful forgeBlock put one block
\* after the existing ones, every other call, failed ones included, leaves the
\* chain as it was
AppendOnly ==
    [][/\ Len(chain') >= Len(chain)
       /\ SubSeq(chain', 1, Len(chain)) = chain
       /\ Sealing(ret') => Len(chain') = Len(chain) + 1
       /\ ~Sealing(ret') => chain' = chain]_vars

\* a transfer has been refused for lack of balance on a proof-of-work chain
\* of three blocks
AppendOnlyWitness ==
    /\ kind = "pow"
    /\ ret = Returned("createTransaction", "Not enough balance")
    /\ Len(chain) = 3
    /\ \A i \in 1..Len(chain) : chain[i].index = i - 1

\* the positions of a sequence of transactions that hold the transaction t
Occurrences(txs, t) == {i \in 1..Len(txs) : txs[i].id = t.id}

IsRoundReward(tx) ==
    /\ tx.id = GenerateId(nextId)
    /\ tx.fromAddress = Null
    /\ tx.amount = IF kind = "pow" THEN MiningReward ELSE BlockReward

\* C28 as written: in every block minePendingTransactions or forgeBlock
\* produces, the reward transaction of that round is the first transaction
RewardFirst ==
    [][Sealing(ret') => IsRoundReward(chain'[Len(chain')].transactions[1])]_vars

\* C28: in every block minePendingTransactions or forgeBlock produces, the
\* reward transaction of that round is the last transaction, after the pool
\* in its order; it is the first one only when the pool was empty
RewardLast ==
    [][Sealing(ret') =>
         LET txs == chain'[Len(chain')].transactions
             n == Len(pendingTransactions)
         IN /\ Len(txs) = n + 1
            /\ IsRoundReward(txs[n + 1])
            /\ \A i \in 1..n : txs[i] = pendingTransactions[i] /\ ~IsRoundReward(txs[i])]_vars

\* a forged block holds a coinbase transaction a caller submitted, a transfer
\* and, last, the reward of 5
RewardLastWitness ==
    /\ kind = "pos"
    /\ ret = Returned("forgeBlock", "true")
    /\ Len(chain[Len(chain)].transactions) = 3
    /\ chain[Len(chain)].transactions[1].fromAddress = Null
    /\ chain[Len(chain)].transactions[1].amount # BlockReward
    /\ chain[Len(chain)].transactions[2].fromAddress # Null
    /\ chain[Len(chain)].transactions[3].fromAddress = Null
    /\ chain[Len(chain)].transactions[3].amount = BlockReward

\* C29 as written: in both chains every transaction in the pool or in a block
\* has a non-empty recipient and an amount that is not negative, and positive
\* when the transaction has a sender
WellFormedTransactions ==
    LET all == SealedTransactions(chain) \o pendingTransactions
    IN \A i \in 1..Len(all) :
          /\ all[i].toAddress # ""
          /\ all[i].amount >= 0
          /\ all[i].fromAddress # Null => all[i].amount > 0

\* C30: in both chains a freshly constructed chain is one block with index 0
\* and previousHash "0"; in every state the chain has a block, the block at
\* position i (counted from 0) has index i, and every block holds at least
\* one transaction
ChainShape ==
    /\ ret.op = "new" => Len(chain) = 1
    /\ Len(chain) >= 1
    /\ chain[1].index = 0
    /\ chain[1].previousHash = <<0>>
    /\ \A i \in 1..Len(chain) :
          /\ chain[i].index = i - 1
          /\ Len(chain[i].transactions) >= 1

\* two blocks have been mined on an empty pool: they are numbered 1 and 2 and
\* each holds its reward transaction alone
ChainShapeWitness ==
    /\ kind = "pow"
    /\ ret = Returned("minePendingTransactions", "ok")
    /\ Len(chain) = 3
    /\ chain[2].index = 1 /\ Len(chain[2].transactions) = 1
    /\ chain[3].index = 2 /\ Len(chain[3].transactions) = 1

ValidByConstruction ==
    /\ IsChainValid
    /\ ret.op = "isChainValid" => ret.result = "true"

\* isChainValid() has just run on a proof-of-stake chain of three blocks whose
\* last block seals a transfer next to the round's reward
ValidByConstructionWitness ==
    /\ kind = "pos"
    /\ ret = Returned("isChainValid", "true")
    /\ Len(chain) = 3
    /\ \E i \in 1..Len(chain[3].transactions) :
          chain[3].transactions[i].fromAddress \in Addresses

\* C35 as written: in the proof-of-stake chain every call of stakeTokens and
\* unstakeTokens, successful or not, leaves each address's balance plus its
\* recorded stake (0 when it is not a validator) unchanged
StakingConservesTokens ==
    [][ret'.op \in {"stakeTokens", "unstakeTokens"} =>
         \A a \in Addresses :
            Held(balances', a) + StakeOf(validators', a)
              = Held(balances, a) + StakeOf(validators, a)]_vars

\* C36 as written: in the proof-of-stake chain, as long as no transaction was
\* submitted with a negative amount (stakes and withdrawals are never
\* negative), no address's balance is negative after any interleaving of
\* createTransaction, stakeTokens, unstakeTokens and forgeBlock
PendingNotStaked ==
    LET all == SealedTransactions(chain) \o pendingTransactions
    IN (\A i \in 1..Len(all) : all[i].amount >= 0) =>
          \A a \in DOMAIN balances : balances[a] >= 0

\* ------------------------------------------------------ NoobCoin properties
\* getBalance(address) read off a wallet map
WalletBalance(wallets, a) == IF a \in DOMAIN wallets THEN wallets[a].balance ELSE 0

RECURSIVE WalletTotal(_, _)
WalletTotal(wallets, keys) ==
    IF keys = {} THEN 0
    ELSE LET k == CHOOSE x \in keys : TRUE
         IN wallets[k].balance + WalletTotal(wallets, keys \ {k})

\* C32 as written: after any sequence of sendCoins and mineBlock calls the
\* circulating supply of the coin does not exceed its total supply, so what
\* remains to mine is never negative
SupplyCap ==
    /\ noobCoin.circulatingSupply <= noobCoin.totalSupply
    /\ RemainingToMine >= 0

\* C37 as written: after construction and after any sequence of createWallet,
\* sendCoins and mineBlock calls the balances of all wallets add up to the
\* circulating supply
SupplyAccounting ==
    WalletTotal(noobCoin.wallets, DOMAIN noobCoin.wallets) = noobCoin.circulatingSupply

\* C38 as written: a call of mineBlock either appends the block, leaves every
\* recipient of its transactions with a wallet under its own address, raises
\* the wallets' total by the block reward, clears the pool and adds the block
\* reward to the circulating supply, or it changes nothing of the coin
MineBlockAllOrNothing ==
    [][ret'.op = "mineBlock" =>
         \/ /\ Len(noobCoin'.blockchain) = Len(noobCoin.blockchain) + 1
            /\ LET block == noobCoin'.blockchain[Len(noobCoin'.blockchain)]
               IN \A i \in 1..Len(block.transactions) :
                     block.transactions[i].to \in DOMAIN noobCoin'.wallets
            /\ WalletTotal(noobCoin'.wallets, DOMAIN noobCoin'.wallets)
                 = WalletTotal(noobCoin.wallets, DOMAIN noobCoin.wallets)
                   + noobCoin.blockReward
            /\ noobCoin'.pendingTransactions = <<>>
            /\ noobCoin'.circulatingSupply
                 = noobCoin.circulatingSupply + noobCoin.blockReward
         \/ noobCoin' = noobCoin]_vars

\* C39 as written, for a block that holds one transfer between two different
\* addresses and is mined by a third: mining the transfer sendCoins accepted
\* does not lower the recipient's balance and does not raise the sender's
TransferDirection ==
    [][(/\ ret'.op = "mineBlock"
        /\ Len(noobCoin.pendingTransactions) = 1
        /\ LET tx == noobCoin.pendingTransactions[1]
               block == noobCoin'.blockchain[Len(noobCoin'.blockchain)]
           IN /\ tx.from # tx.to
              /\ block.transactions[1].to \notin {tx.from, tx.to}) =>
         LET tx == noobCoin.pendingTransactions[1]
         IN /\ WalletBalance(noobCoin'.wallets, tx.to)
                 >= WalletBalance(noobCoin.wallets, tx.to)
            /\ WalletBalance(noobCoin'.wallets, tx.from)
                 <= WalletBalance(noobCoin.wallets, tx.from)]_vars

\* ------------------------------------------------------- network properties
\* node n has just mined and broadcast a block while running and connected to
\* the running node m
MinedWhileConnected(n, m) ==
    /\ ret = Returned("mineAndBroadcastBlock", n)
    /\ nodes[n].isNetworkActive
    /\ nodes[m].isNetworkActive
    /\ PeerIdOf[m] \in nodes[n].peers

\* C33 as written: after a running node has mined a block with
\* mineAndBroadcastBlock while connected to a running peer, that peer
\* eventually holds a chain as long as the mining node's
BlocksPropagate ==
    \A n \in NodeIds : \A m \in NodeIds \ {n} :
       MinedWhileConnected(n, m) ~>
          (Len(nodes[m].blockchain.chain) = Len(nodes[n].blockchain.chain))

\* new_transaction messages in a queue that some other node sent
RECURSIVE FromOthers(_, _)
FromOthers(queue, n) ==
    IF queue = <<>> THEN 0
    ELSE (IF Head(queue).type = "new_transaction" /\ Head(queue).sender # n
          THEN 1 ELSE 0) + FromOthers(Tail(queue), n)

\* C40 as written: an accepted createAndBroadcastTransaction on a running node
\* with a peer adds exactly one transaction to that node's pool and none to
\* any other pool, and when a node later handles the messages delivered to it
\* its pool grows by no more than the transactions other nodes broadcast:
\* a node never handles its own broadcast
OwnBroadcastNotHandled ==
    [][/\ ret' = Returned("createAndBroadcastTransaction", "ok") =>
            \E n \in NodeIds :
               /\ Len(nodes'[n].blockchain.pendingTransactions)
                    = Len(nodes[n].blockchain.pendingTransactions) + 1
               /\ \A m \in NodeIds \ {n} :
                     nodes'[m].blockchain.pendingTransactions
                       = nodes[m].blockchain.pendingTransactions
       /\ ret'.op = "processMessageQueue" =>
            \A n \in NodeIds :
               Len(nodes'[n].blockchain.pendingTransactions)
                 <= Len(nodes[n].blockchain.pendingTransactions)
                    + FromOthers(messageQueues[n], n)]_vars

====
